---- MODULE Spec2Model ----
(***************************************************************************)
(* A model of the barn editor's row / cursor / viewport subsystem:         *)
(*   adapters/editor_rows.rs   the row store and tab expansion             *)
(*   adapters/cursor.rs        the cursor and viewport controller          *)
(*   app/editor_app.rs         the driver loop (one frame per key event)   *)
(* A str is modelled as the sequence of its characters, each character a   *)
(* one-character string; every character of the model's alphabets is one   *)
(* byte long, so str::len() is Len.                                        *)
(***************************************************************************)
EXTENDS Integers, Sequences, FiniteSets, TLC

\* ------------------------------------------------------------------------
\* Program constants
\* ------------------------------------------------------------------------
TAB_STOP == 8

TAB == "\t"
SP == " "
LF == "\n"
CR == "\r"

\* ------------------------------------------------------------------------
\* Bounds of the model
\* ------------------------------------------------------------------------
\* rows of a row store in the controller specification
MaxRows == 2
\* characters of one row in the controller specification
MaxRowLen == 1
\* viewport heights and widths tried in the controller specification
MaxScreenRows == 2
MaxScreenCols == 2
\* viewport widths tried in the driver loop (a status bar needs 3 columns)
MaxAppCols == 4
\* characters of a raw row handed to render_row
MaxRawLen == 8
\* lines of a loaded text, and characters of one of its lines
MaxLines == 2
MaxLineLen == 2
\* calls of one run of the end-to-end scenario
MaxTrace == 5
MaxTime == 8
WideCols == 40
TallRows == 6
MaxGrassLen == 3
MaxLogLines == 2
MaxEvents == 3
MaxCursorEvents == 3
MaxPrior == 4
MaxPolls == 2

\* ------------------------------------------------------------------------
\* Helpers
\* ------------------------------------------------------------------------
Min(a, b) == IF a <= b THEN a ELSE b

Max(a, b) == IF a >= b THEN a ELSE b

Abs(a) == IF a >= 0 THEN a ELSE 0 - a

\* all sequences over S of length 0..n
SeqsUpTo(S, n) == UNION { [1..k -> S] : k \in 0..n }

\* s[from+1 .. Len(s)], the str slice s[from..]
Drop(s, from) == SubSeq(s, from + 1, Len(s))

\* s[1..to], the str slice s[..to]
Take(s, to) == SubSeq(s, 1, to)

\* ------------------------------------------------------------------------
\* adapters/editor_rows.rs
\* ------------------------------------------------------------------------
\* Row::new
Row(row_content, render) == [row_content |-> row_content, render |-> render]

\* the inner loop of render_row with the column counted from 0: it pads until
\* index - 1 is a multiple of TAB_STOP
RECURSIVE render_tab_pad_zero_based(_)
render_tab_pad_zero_based(st) ==
    IF (st[2] - 1) % TAB_STOP /= 0
    THEN render_tab_pad_zero_based(<<Append(st[1], SP), st[2] + 1>>)
    ELSE st

\* the inner loop of render_row: `while index % TAB_STOP != 0 { push(' '); index += 1 }`
\* st = <<render, index>>
RECURSIVE render_tab_pad(_)
render_tab_pad(st) ==
    IF st[2] % TAB_STOP /= 0
    THEN render_tab_pad(<<Append(st[1], SP), st[2] + 1>>)
    ELSE st

\* the body of the for_each closure of render_row, for the i-th character
RECURSIVE render_row_each(_, _, _)
render_row_each(row_content, i, st) ==
    IF i > Len(row_content) THEN st
    ELSE LET c == row_content[i]
             index == st[2] + 1
         IN  IF c = TAB
             THEN render_row_each(row_content, i + 1,
                                  render_tab_pad(<<Append(st[1], SP), index>>))
             ELSE render_row_each(row_content, i + 1, <<Append(st[1], c), index>>)

\* render_row that pushes to the render the row already has (no
\* `row.render = String::with_capacity(capacity)`)
render_row_appends(row) ==
    Row(row.row_content, render_row_each(row.row_content, 1, <<row.render, 0>>)[1])

\* EditorRows::render_row(&self, row: &mut Row): the row after the call
render_row(row) ==
    Row(row.row_content, render_row_each(row.row_content, 1, <<<<>>, 0>>)[1])

\* str::lines() as EditorRows::from_file uses it: the text is cut after every
\* '\n' (split_inclusive); a piece loses its final '\n' and then a final '\r';
\* a last piece with no '\n' is kept whole; no piece follows a final '\n'.
\* cur is the piece being read, acc the lines already cut.
RECURSIVE str_lines_from(_, _, _, _)
str_lines_from(text, i, cur, acc) ==
    IF i > Len(text)
    THEN IF cur = <<>> THEN acc ELSE Append(acc, cur)
    ELSE IF text[i] = LF
         THEN LET line == IF cur /= <<>> /\ cur[Len(cur)] = CR
                          THEN Take(cur, Len(cur) - 1)
                          ELSE cur
              IN  str_lines_from(text, i + 1, <<>>, Append(acc, line))
         ELSE str_lines_from(text, i + 1, Append(cur, text[i]), acc)

str_lines(text) == str_lines_from(text, 1, <<>>, <<>>)

\* a file of the file system: its path and its content
File(name, content) == [name |-> name, content |-> content]

\* env::args().nth(1) when no argument is given
NoArg == [name |-> "", content |-> <<>>, absent |-> TRUE]

\* a path that fs::read_to_string cannot read (no such file, no permission, not
\* UTF-8)
Unreadable(name) == [name |-> name, content |-> <<>>, unreadable |-> TRUE]

\* fs::read_to_string(&file) returns Err: `.expect("Unable to read file")` panics
read_to_string_never_fails(file) == FALSE

read_to_string_fails(file) == "unreadable" \in DOMAIN file

\* from_file that skips the empty lines of the file
from_file_drops_empty_lines(file) ==
    LET lines == SelectSeq(str_lines(file.content), LAMBDA l : l /= <<>>)
    IN  [row_content |-> [i \in 1..Len(lines) |-> Row(lines[i], <<>>)],
         file_name |-> <<file.name>>]

\* EditorRows::from_file: one Row per line, its render left empty (String::new())
from_file(file) ==
    LET lines == str_lines(file.content)
    IN  [row_content |-> [i \in 1..Len(lines) |-> Row(lines[i], <<>>)],
         file_name |-> <<file.name>>]

\* EditorRows::new: arg is NoArg or a File; file_name is an Option (<<>> is None)
EditorRows_new(arg) ==
    IF "absent" \in DOMAIN arg
    THEN [row_content |-> <<>>, file_name |-> <<>>]
    ELSE from_file(arg)

number_of_rows(editor_rows) == Len(editor_rows.row_content)

\* at is the 0-based index of the source
get_row(editor_rows, at) == editor_rows.row_content[at + 1].row_content

get_render(editor_rows, at) == editor_rows.row_content[at + 1].render

get_editor_row(editor_rows, at) == editor_rows.row_content[at + 1]

get_file_name(editor_rows) == editor_rows.file_name

\* ------------------------------------------------------------------------
\* adapters/cursor.rs
\* ------------------------------------------------------------------------
\* the directions move_cursor implements
Directions == {"k", "h", "j", "l", "End", "Home"}

\* CursorController::new
CursorController_new(window_size) ==
    [cursor_x |-> 0, cursor_y |-> 0,
     screen_cols |-> window_size[1], screen_rows |-> window_size[2],
     row_offset |-> 0, col_offset |-> 0, render_x |-> 0]

\* an up move that scrolls the window itself when the cursor leaves it
move_up_scrolls(cc, editor_rows) ==
    [cc EXCEPT !.cursor_y = Max(cc.cursor_y - 1, 0),
               !.row_offset = Min(cc.row_offset, Max(cc.cursor_y - 1, 0))]

\* KeyCode::Char('k'), up
move_up(cc, editor_rows) ==
    [cc EXCEPT !.cursor_y = Max(cc.cursor_y - 1, 0)]

\* a left move that stops at column 0 instead of wrapping to the previous row
move_left_no_wrap(cc, editor_rows) ==
    IF cc.cursor_x /= 0
    THEN [cc EXCEPT !.cursor_x = cc.cursor_x - 1]
    ELSE cc

\* KeyCode::Char('h'), left
move_left(cc, editor_rows) ==
    IF cc.cursor_x /= 0
    THEN [cc EXCEPT !.cursor_x = cc.cursor_x - 1]
    ELSE IF cc.cursor_y > 0
         THEN [cc EXCEPT !.cursor_y = cc.cursor_y - 1,
                         !.cursor_x = Len(get_row(editor_rows, cc.cursor_y - 1))]
         ELSE cc

\* a down move that stops on the last row instead of reaching the sentinel row
move_down_stops_at_last_row(cc, editor_rows) ==
    IF cc.cursor_y + 1 < number_of_rows(editor_rows)
    THEN [cc EXCEPT !.cursor_y = cc.cursor_y + 1]
    ELSE cc

\* KeyCode::Char('j'), down
move_down(cc, editor_rows) ==
    IF cc.cursor_y /= number_of_rows(editor_rows)
    THEN [cc EXCEPT !.cursor_y = cc.cursor_y + 1]
    ELSE cc

\* the right move of the claimed behaviour: the cursor stays at the end of the last row
move_right_stays_on_last_row(cc, editor_rows) ==
    IF cc.cursor_y < number_of_rows(editor_rows)
    THEN LET len == Len(get_row(editor_rows, cc.cursor_y))
         IN  IF cc.cursor_x < len
             THEN [cc EXCEPT !.cursor_x = cc.cursor_x + 1]
             ELSE IF cc.cursor_x = len /\ cc.cursor_y + 1 < number_of_rows(editor_rows)
                  THEN [cc EXCEPT !.cursor_y = cc.cursor_y + 1, !.cursor_x = 0]
                  ELSE cc
    ELSE cc

\* KeyCode::Char('l'), right
move_right(cc, editor_rows) ==
    IF cc.cursor_y < number_of_rows(editor_rows)
    THEN LET len == Len(get_row(editor_rows, cc.cursor_y))
         IN  IF cc.cursor_x < len
             THEN [cc EXCEPT !.cursor_x = cc.cursor_x + 1]
             ELSE IF cc.cursor_x = len
                  THEN [cc EXCEPT !.cursor_y = cc.cursor_y + 1, !.cursor_x = 0]
                  ELSE cc
    ELSE cc

\* an End that stops on the last character instead of after it
move_end_on_last_char(cc, editor_rows) ==
    IF cc.cursor_y < number_of_rows(editor_rows)
    THEN [cc EXCEPT !.cursor_x = Max(Len(get_row(editor_rows, cc.cursor_y)) - 1, 0)]
    ELSE cc

\* KeyCode::End
move_end(cc, editor_rows) ==
    IF cc.cursor_y < number_of_rows(editor_rows)
    THEN [cc EXCEPT !.cursor_x = Len(get_row(editor_rows, cc.cursor_y))]
    ELSE cc

\* KeyCode::Home
move_home(cc, editor_rows) ==
    [cc EXCEPT !.cursor_x = 0]

\* the match of move_cursor: the controller before the final clamp
move_cursor_match(cc, direction, editor_rows) ==
    CASE direction = "k" -> move_up(cc, editor_rows)
      [] direction = "h" -> move_left(cc, editor_rows)
      [] direction = "j" -> move_down(cc, editor_rows)
      [] direction = "l" -> move_right(cc, editor_rows)
      [] direction = "End" -> move_end(cc, editor_rows)
      [] direction = "Home" -> move_home(cc, editor_rows)

\* move_cursor without its final clamp of cursor_x
move_cursor_no_clamp(cc, direction, editor_rows) ==
    move_cursor_match(cc, direction, editor_rows)

\* CursorController::move_cursor
move_cursor(cc, direction, editor_rows) ==
    LET m == move_cursor_match(cc, direction, editor_rows)
        row_len == IF m.cursor_y < number_of_rows(editor_rows)
                   THEN Len(get_row(editor_rows, m.cursor_y))
                   ELSE 0
    IN  [m EXCEPT !.cursor_x = Min(m.cursor_x, row_len)]

\* CursorController::get_cursor_position. The subtraction of two usize wraps in
\* a release build; the wrapped value 2^64 + d (d < 0) is written d.
get_cursor_position(cc) ==
    <<cc.render_x - cc.col_offset, cc.cursor_y - cc.row_offset>>

\* CursorController::set_cursor_position
set_cursor_position(cc, x, y) == [cc EXCEPT !.cursor_x = x, !.cursor_y = y]

\* the fold of get_render_x over the characters of a prefix
RECURSIVE render_x_fold(_, _, _)
render_x_fold(prefix, i, render_x) ==
    IF i > Len(prefix) THEN render_x
    ELSE render_x_fold(prefix, i + 1,
            IF prefix[i] = TAB
            THEN render_x + (TAB_STOP - 1) - (render_x % TAB_STOP) + 1
            ELSE render_x + 1)

\* get_render_x that counts every character, a tab too, as one column
get_render_x_no_tabs(cc, row) == Len(Take(row.row_content, cc.cursor_x))

\* get_render_x that folds over the whole row, not over row[..cursor_x]
get_render_x_whole_row(cc, row) == render_x_fold(row.row_content, 1, 0)

\* A str is the sequence of its bytes. A character of one byte is written as
\* itself; the character of two bytes of the model is its lead byte followed by
\* its continuation byte.
LeadByte == "C3"

ContinuationByte == "A9"

\* str::chars: one item per character, the lead byte standing for it
chars(bytes) == SelectSeq(bytes, LAMBDA b : b /= ContinuationByte)

\* str::is_char_boundary(index)
is_char_boundary(bytes, index) ==
    \/ index = 0
    \/ index = Len(bytes)
    \/ index < Len(bytes) /\ bytes[index + 1] /= ContinuationByte

\* the slice row.get_content()[..self.cursor_x] of get_render_x panics: the
\* index is past the end or inside a character
get_render_x_panics(cc, row) == ~is_char_boundary(row.row_content, cc.cursor_x)

\* CursorController::get_render_x, when the slice does not panic
get_render_x(cc, row) ==
    render_x_fold(chars(Take(row.row_content, cc.cursor_x)), 1, 0)

\* scroll with the window's lower and right edge taken one cell too far
\* (the `+ 1` of both assignments forgotten)
scroll_off_by_one(cc, editor_rows) ==
    LET render_x == IF cc.cursor_y < number_of_rows(editor_rows)
                    THEN get_render_x(cc, get_editor_row(editor_rows, cc.cursor_y))
                    ELSE 0
        row_min == Min(cc.row_offset, cc.cursor_y)
        col_min == Min(cc.col_offset, render_x)
    IN  [cc EXCEPT !.render_x = render_x,
                   !.row_offset = IF cc.cursor_y >= row_min + cc.screen_rows
                                  THEN cc.cursor_y - cc.screen_rows
                                  ELSE row_min,
                   !.col_offset = IF render_x >= col_min + cc.screen_cols
                                  THEN render_x - cc.screen_cols
                                  ELSE col_min]

\* scroll that puts the cursor on the first line and column of the window
\* whenever it has left the window
scroll_to_top_left(cc, editor_rows) ==
    LET render_x == IF cc.cursor_y < number_of_rows(editor_rows)
                    THEN get_render_x(cc, get_editor_row(editor_rows, cc.cursor_y))
                    ELSE 0
        row_min == Min(cc.row_offset, cc.cursor_y)
        col_min == Min(cc.col_offset, render_x)
    IN  [cc EXCEPT !.render_x = render_x,
                   !.row_offset = IF cc.cursor_y >= row_min + cc.screen_rows
                                  THEN cc.cursor_y
                                  ELSE row_min,
                   !.col_offset = IF render_x >= col_min + cc.screen_cols
                                  THEN render_x
                                  ELSE col_min]

\* a scroll that always puts the cursor on the last line of the window
scroll_bottom_aligned(cc, editor_rows) ==
    LET render_x == IF cc.cursor_y < number_of_rows(editor_rows)
                    THEN get_render_x(cc, get_editor_row(editor_rows, cc.cursor_y))
                    ELSE 0
        col_min == Min(cc.col_offset, render_x)
    IN  [cc EXCEPT !.render_x = render_x,
                   !.row_offset = Max(cc.cursor_y - cc.screen_rows + 1, 0),
                   !.col_offset = IF render_x >= col_min + cc.screen_cols
                                  THEN render_x - cc.screen_cols + 1
                                  ELSE col_min]

\* CursorController::scroll
scroll(cc, editor_rows) ==
    LET render_x == IF cc.cursor_y < number_of_rows(editor_rows)
                    THEN get_render_x(cc, get_editor_row(editor_rows, cc.cursor_y))
                    ELSE 0
        row_min == Min(cc.row_offset, cc.cursor_y)
        row_offset == IF cc.cursor_y >= row_min + cc.screen_rows
                      THEN cc.cursor_y - cc.screen_rows + 1
                      ELSE row_min
        col_min == Min(cc.col_offset, render_x)
        col_offset == IF render_x >= col_min + cc.screen_cols
                      THEN render_x - cc.screen_cols + 1
                      ELSE col_min
    IN  [cc EXCEPT !.render_x = render_x,
                   !.row_offset = row_offset,
                   !.col_offset = col_offset]

\* ------------------------------------------------------------------------
\* adapters/editor_buffer.rs, adapters/status_message.rs
\* ------------------------------------------------------------------------
\* The content of the buffer is a sequence of items: a character, or the escape
\* sequence of one queued crossterm command.
Ch(c) == [t |-> "ch", s |-> c, x |-> 0, y |-> 0]

\* a queued command without arguments: Hide, Show, ClearAll, ClearUntilNewLine,
\* Reverse, Bold, Reset
Cmd(name) == [t |-> name, s |-> "", x |-> 0, y |-> 0]

\* a queued cursor::MoveTo(x, y)
MoveTo(x, y) == [t |-> "MoveTo", s |-> "", x |-> x, y |-> y]

\* the items append_str(str) appends
Chars(str) == [i \in 1..Len(str) |-> Ch(str[i])]

\* `v as u16` of a usize (of a wrapped difference too: 2^16 divides 2^64)
AsU16(v) == v % 65536

\* EditorBuffer::flush when the write and the flush of stdout succeed: what
\* stdout receives and the buffer after it
flush_keeps_buffer(buf) == [written |-> buf, buffer |-> buf]

flush(buf) == [written |-> buf, buffer |-> <<>>]

\* "HELP: Ctrl-Q = Quit"
HelpText ==
    <<"H", "E", "L", "P", ":", " ", "C", "t", "r", "l", "-", "Q", " ", "=", " ",
      "Q", "u", "i", "t">>

\* a new() that stamps the initial message with the time of construction
StatusMessage_new_stamped(initial_message) ==
    [message |-> <<initial_message>>, set_time |-> <<0>>]

\* StatusMessage::new; an Option is <<>> (None) or <<v>> (Some(v))
StatusMessage_new(initial_message) ==
    [message |-> <<initial_message>>, set_time |-> <<>>]

\* StatusMessage::set_message at time t (Instant::now())
set_message_no_time(sm, text, t) == [message |-> <<text>>, set_time |-> sm.set_time]

set_message(sm, text, t) == [message |-> <<text>>, set_time |-> <<t>>]

\* Duration::from_secs(5), in the unit of `now`
EXPIRY == 5

\* StatusMessage::message at time t: the StatusMessage after the call and the
\* Option returned
message(sm, t) ==
    IF sm.set_time = <<>>
    THEN [sm |-> sm, out |-> <<>>]
    ELSE IF t - sm.set_time[1] > EXPIRY
         THEN [sm |-> [message |-> <<>>, set_time |-> <<>>], out |-> <<>>]
         ELSE [sm |-> sm, out |-> <<sm.message[1]>>]

\* ------------------------------------------------------------------------
\* seeds/essentials/grass.rs: the buffer is the Vec<String>, idx is 0-based
\* ------------------------------------------------------------------------
\* Grass::new
Grass_new == <<>>

\* insert_line that ignores an index past the end
insert_line_ignores_out_of_range(buf, idx, line) ==
    IF idx <= Len(buf)
    THEN Take(buf, idx) \o <<line>> \o Drop(buf, idx)
    ELSE buf

\* Grass::insert_line: Vec::insert(idx, line) or Vec::push(line)
insert_line(buf, idx, line) ==
    IF idx <= Len(buf)
    THEN Take(buf, idx) \o <<line>> \o Drop(buf, idx)
    ELSE Append(buf, line)

\* Grass::remove_line: Vec::remove(idx)
remove_line(buf, idx) ==
    IF idx < Len(buf)
    THEN Take(buf, idx) \o Drop(buf, idx + 1)
    ELSE buf

\* Grass::edit_line: buffer[idx] = new_line
edit_line(buf, idx, new_line) ==
    IF idx < Len(buf)
    THEN [buf EXCEPT ![idx + 1] = new_line]
    ELSE buf

\* writeln!(file, "{}", line) for every line of the buffer
RECURSIVE save_bytes(_)
save_bytes(buf) ==
    IF buf = <<>> THEN <<>> ELSE Head(buf) \o <<LF>> \o save_bytes(Tail(buf))

\* a save_file that opens the file with truncate(true)
save_file_truncates(buf, content) == save_bytes(buf)

\* Grass::save_file: the content of the file after it. The file is opened with
\* write(true).create(true), neither truncate nor append: the bytes are written
\* from position 0 over the old content, and what the old content has beyond
\* them stays.
save_file(buf, content) == save_bytes(buf) \o Drop(content, Len(save_bytes(buf)))

\* Grass::load_file: contents.lines() collected
load_file(content) == str_lines(content)

\* ------------------------------------------------------------------------
\* tools/logger.rs
\* ------------------------------------------------------------------------
\* enum LogLevel in its declared order; the derived Ord compares the positions
LogLevel == <<"Fatal", "Error", "Warning", "Info", "Debug", "Trace">>

\* the position of a level in the declaration
Ord(level) == CHOOSE i \in 1..Len(LogLevel) : LogLevel[i] = level

\* Logger::new(file_path, level); file is what the logger has written to it
Logger_new(level) == [level |-> level, file |-> <<>>]

\* format!("[{:?}]: {}\n", level, message)
log_message(level, msg) == [level |-> level, message |-> msg]

\* a log that writes the levels from the logger's level up in the declaration
log_from_level_up(lg, level, msg) ==
    IF Ord(level) >= Ord(lg.level)
    THEN [lg EXCEPT !.file = Append(lg.file, log_message(level, msg))]
    ELSE lg

\* Logger::log when file.write_all returns Ok: `if level <= self.level`
log(lg, level, msg) ==
    IF Ord(level) <= Ord(lg.level)
    THEN [lg EXCEPT !.file = Append(lg.file, log_message(level, msg))]
    ELSE lg

\* ------------------------------------------------------------------------
\* domain/editor.rs
\* ------------------------------------------------------------------------
\* env!("CARGO_PKG_VERSION"): the package version, set outside the source files
CARGO_PKG_VERSION == <<"0", ".", "1", ".", "0">>

\* format!("BARN Editor --- Version {}", env!("CARGO_PKG_VERSION"))
WelcomeText ==
    <<"B", "A", "R", "N", " ", "E", "d", "i", "t", "o", "r", " ", "-", "-", "-",
      " ", "V", "e", "r", "s", "i", "o", "n", " ">> \o CARGO_PKG_VERSION

Spaces(n) == [i \in 1..n |-> Ch(SP)]

\* the welcome line of draw_rows
draw_welcome(screen_columns) ==
    LET welcome == IF Len(WelcomeText) > screen_columns
                   THEN Take(WelcomeText, screen_columns)
                   ELSE WelcomeText
        padding == (screen_columns - Len(welcome)) \div 2
    IN  (IF padding /= 0 THEN <<Ch("~")>> \o Spaces(padding - 1) ELSE <<>>)
        \o Chars(welcome)

\* what draw_rows appends for screen line i: the content, the clear to the end
\* of the line, "\r\n"
draw_rows_line_welcome_on_top(rows, ctl, window_size, i) ==
    LET file_row == i + ctl.row_offset
        content ==
            IF file_row >= number_of_rows(rows)
            THEN IF number_of_rows(rows) = 0 /\ i = 0
                 THEN draw_welcome(window_size[1])
                 ELSE <<Ch("~")>>
            ELSE LET render == get_render(rows, file_row)
                     len == Min(Max(Len(render) - ctl.col_offset, 0), window_size[1])
                     start == IF len = 0 THEN 0 ELSE ctl.col_offset
                 IN  Chars(SubSeq(render, start + 1, start + len))
    IN  content \o <<Cmd("ClearUntilNewLine"), Ch(CR), Ch(LF)>>

draw_rows_line(rows, ctl, window_size, i) ==
    LET screen_rows == window_size[2]
        screen_columns == window_size[1]
        file_row == i + ctl.row_offset
        content ==
            IF file_row >= number_of_rows(rows)
            THEN IF number_of_rows(rows) = 0 /\ i = screen_rows \div 3
                 THEN draw_welcome(screen_columns)
                 ELSE <<Ch("~")>>
            ELSE LET render == get_render(rows, file_row)
                     col_offset == ctl.col_offset
                     len == Min(Max(Len(render) - col_offset, 0), screen_columns)
                     start == IF len = 0 THEN 0 ELSE col_offset
                 IN  Chars(SubSeq(render, start + 1, start + len))
    IN  content \o <<Cmd("ClearUntilNewLine"), Ch(CR), Ch(LF)>>

\* what draw_rows appends for the screen lines 0 .. count-1
RECURSIVE draw_rows_lines(_, _, _, _)
draw_rows_lines(rows, ctl, window_size, count) ==
    IF count = 0 THEN <<>>
    ELSE draw_rows_lines(rows, ctl, window_size, count - 1)
         \o draw_rows_line(rows, ctl, window_size, count - 1)

\* EditorDomain::draw_rows when no stdout().flush() fails
draw_rows(rows, ctl, window_size) ==
    draw_rows_lines(rows, ctl, window_size, window_size[2])

Digit(d) == <<"0", "1", "2", "3", "4", "5", "6", "7", "8", "9">>[d + 1]

\* format!("{}", n) of an unsigned number
RECURSIVE Decimal(_)
Decimal(n) == IF n < 10 THEN <<Digit(n)>> ELSE Decimal(n \div 10) \o <<Digit(n % 10)>>

\* format!("{:<width$}", str): padded on the right to width, never cut
PadRight(str, width) == str \o [i \in 1..(width - Len(str)) |-> SP]

\* format!("{:>width$}", str): padded on the left to width, never cut
PadLeft(str, width) == [i \in 1..(width - Len(str)) |-> SP] \o str

\* the file name draw_status_bar shows
status_file_name(rows) ==
    IF get_file_name(rows) = <<>>
    THEN <<"[", "N", "o", " ", "N", "a", "m", "e", "]">>
    ELSE <<get_file_name(rows)[1]>>

\* line_info of draw_status_bar
status_line_info(rows, ctl) ==
    Decimal(get_cursor_position(ctl)[2] + 1) \o <<"/">> \o Decimal(number_of_rows(rows))

\* info of draw_status_bar
status_info(rows) ==
    status_file_name(rows) \o <<" ", "-", "-", " ">> \o Decimal(number_of_rows(rows))
        \o <<" ", "l", "i", "n", "e", "s">>

\* draw_status_bar fails: window_size.0 - line_info.len() underflows (a panic in
\* a debug build; in a release build info_len wraps to info.len() and the width
\* window_size.0 - info_len of the second field underflows in turn)
draw_status_bar_fails(rows, ctl, window_size) ==
    window_size[1] < Len(status_line_info(rows, ctl))

\* EditorDomain::draw_status_bar when it does not fail
draw_status_bar(rows, ctl, window_size) ==
    LET line_info == status_line_info(rows, ctl)
        info == status_info(rows)
        info_len == Min(Len(info), window_size[1] - Len(line_info))
        status_bar == PadRight(info, info_len) \o PadLeft(line_info, window_size[1] - info_len)
    IN  <<Cmd("Reverse"), Cmd("Bold")>> \o Chars(status_bar)
        \o <<Cmd("Reset"), Ch(CR), Ch(LF)>>

\* EditorDomain::draw_message_bar, msg the Option returned by message()
draw_message_bar(msg, window_size) ==
    <<Cmd("ClearUntilNewLine")>>
    \o (IF msg = <<>> THEN <<>>
        ELSE Chars(Take(msg[1], Min(window_size[1], Len(msg[1])))))

\* ------------------------------------------------------------------------
\* adapters/terminal_io.rs
\* ------------------------------------------------------------------------
\* WriterAdapter::reset_screen(buffer, None): what it queues
reset_screen == <<Cmd("Hide"), Cmd("ClearAll"), MoveTo(0, 0)>>

\* the items one CursorEventTypes value queues
cursor_event_item(event) ==
    CASE event.t = "MoveTo" -> <<MoveTo(event.x, event.y)>>
      [] event.t = "Show" -> <<Cmd("Show")>>
      [] event.t = "Hide" -> <<Cmd("Hide")>>
      [] event.t = "None" -> <<>>

\* WriterAdapter::cursor_event: what it queues (the buffer's queue! cannot fail)
RECURSIVE cursor_event(_)
cursor_event(cursor_events) ==
    IF cursor_events = <<>> THEN <<>>
    ELSE cursor_event_item(Head(cursor_events)) \o cursor_event(Tail(cursor_events))

\* queue_cursor_events! that goes on after a failure and keeps the last result
RECURSIVE queue_cursor_events_no_break(_, _, _)
queue_cursor_events_no_break(out, cursor_events, fail_at) ==
    IF cursor_events = <<>> THEN out
    ELSE LET event == Head(cursor_events)
         IN  IF event.t = "None"
             THEN queue_cursor_events_no_break(out, Tail(cursor_events), fail_at)
             ELSE IF fail_at = 1
                  THEN queue_cursor_events_no_break([out EXCEPT !.res = "Err"],
                                                    Tail(cursor_events), 0)
                  ELSE queue_cursor_events_no_break(
                          [buffer |-> out.buffer \o cursor_event_item(event),
                           res |-> "Ok"],
                          Tail(cursor_events), Max(fail_at - 1, 0))

\* queue_cursor_events!(buffer, events): `out` is the buffer and `res` so far;
\* the fail_at-th operation on the buffer returns Err and queues nothing
\* (fail_at = 0: none fails). None is skipped with `continue`, an Err breaks.
RECURSIVE queue_cursor_events(_, _, _)
queue_cursor_events(out, cursor_events, fail_at) ==
    IF cursor_events = <<>> THEN out
    ELSE LET event == Head(cursor_events)
         IN  IF event.t = "None"
             THEN queue_cursor_events(out, Tail(cursor_events), fail_at)
             ELSE IF fail_at = 1
                  THEN [out EXCEPT !.res = "Err"]
                  ELSE queue_cursor_events(
                          [buffer |-> out.buffer \o cursor_event_item(event),
                           res |-> "Ok"],
                          Tail(cursor_events), Max(fail_at - 1, 0))

\* WriterAdapter::cursor_event: the macro, its error mapped to
\* WriterError::CursorOperationError
WriterAdapter_cursor_event(buf, cursor_events, fail_at) ==
    LET out == queue_cursor_events([buffer |-> buf, res |-> "Ok"], cursor_events,
                                   fail_at)
    IN  [out EXCEPT !.res = IF @ = "Err" THEN "Err(CursorOperationError)" ELSE @]

\* WriterAdapter::clear_screen(buffer, ClearType::All); `fails` is the buffer
\* operation that returns Err, "" when none does
WriterAdapter_clear_screen(buf, fails) ==
    IF fails = "hide_cursor"
    THEN [buffer |-> buf, res |-> "Err(CursorOperationError)"]
    ELSE IF fails = "clear_screen"
         THEN [buffer |-> buf \o <<Cmd("Hide")>>, res |-> "Err(ClearScreenError)"]
         ELSE [buffer |-> buf \o <<Cmd("Hide"), Cmd("ClearAll")>>, res |-> "Ok"]

\* WriterAdapter::reset_screen(buffer, None)
WriterAdapter_reset_screen(buf, fails) ==
    LET cleared == WriterAdapter_clear_screen(buf, fails)
    IN  IF cleared.res /= "Ok" THEN cleared
        ELSE WriterAdapter_cursor_event(cleared.buffer, <<[t |-> "MoveTo", x |-> 0, y |-> 0]>>,
                                        IF fails = "move_cursor_to" THEN 1 ELSE 0)

\* an event::Event: a key event with its code, or an event of another kind
Key(code) == [t |-> "Key", code |-> code]

OtherEvent(kind) == [t |-> kind, code |-> ""]

\* ------------------------------------------------------------------------
\* app/editor_app.rs
\* ------------------------------------------------------------------------
\* the key events read_key can return
KeyEvents ==
    [code : {"q", "h", "j", "k", "l", "PageUp", "PageDown", "x"},
     modifiers : {"NONE", "CONTROL"}]

\* `times` moves in one direction, the for_each of the page keys
RECURSIVE move_cursor_times(_, _, _, _)
move_cursor_times(ctl, direction, rows, times) ==
    IF times <= 0 THEN ctl
    ELSE move_cursor_times(move_cursor(ctl, direction, rows), direction, rows, times - 1)

\* EditorDomain::get_window_size: the terminal's size now, two lines kept for the bars
get_window_size(term_size) == <<term_size[1], term_size[2] - 2>>

\* the controller after process_keypress has handled a key event that is not
\* the quit key. The two assignments to get_cursor_position().1 of the page keys
\* write a temporary and change nothing.
process_keypress(ctl, event, rows, term_size) ==
    IF event.code \in {"h", "j", "k", "l"}
    THEN move_cursor(ctl, event.code, rows)
    ELSE IF event.code \in {"PageUp", "PageDown"}
         THEN move_cursor_times(ctl,
                                IF event.code = "PageUp" THEN "k" ELSE "j",
                                rows, get_window_size(term_size)[2])
         ELSE ctl

\* a quit test that ignores the modifiers
is_quit_any_modifiers(event) == event.code = "q"

\* the quit key: Char('q') with exactly the CONTROL modifier
is_quit(event) == event.code = "q" /\ event.modifiers = "CONTROL"

\* ------------------------------------------------------------------------
\* State
\* ------------------------------------------------------------------------
VARIABLES
    pc,                 \* where the program is
    arg,                \* the command-line argument: NoArg or the File it names
    source_lines,       \* the lines the file named by arg was written from
    editor_rows,        \* EditorDomain.editor_rows
    cursor_controller,  \* EditorDomain.cursor_controller
    row,                \* the Row handed to render_row
    hist,               \* the last controller call and the controller before it
    trace,              \* the calls made so far: of the end-to-end scenario, of
                        \* the cycle of the driver loop in progress, or how many
                        \* times render_row was called
    terminal_size,      \* what terminal::size() returns: (columns, lines)
    window_size,        \* EditorDomain.window_size
    status_message,     \* EditorDomain.status_message
    now,                \* the time, in seconds
    buffer,             \* EditorDomain.buffer, the content of the EditorBuffer
    terminal,           \* what the last flush of the buffer wrote to stdout
    run_cursor,         \* the locals (cursor_x, cursor_y) of EditorApp::run
    reply,              \* the last call on the StatusMessage and what it returned
    grass,              \* Grass.buffer
    logger,             \* a Logger: its level and what it wrote to its file
    events,             \* the events the terminal holds for event::read()
    disk,               \* the content of the file a Grass saves to and loads from
    call                \* the last call on the Grass, the Logger, the reader, the
                        \* writer or process_keypress: its arguments, its result
                        \* and the state before it

appvars == <<terminal_size, window_size, status_message, now, buffer, terminal,
             run_cursor, reply, grass, logger, events, disk, call>>

vars == <<pc, arg, source_lines, editor_rows, cursor_controller, row, hist, trace,
          terminal_size, window_size, status_message, now, buffer, terminal,
          run_cursor, reply, grass, logger, events, disk, call>>

\* the row store before it is constructed
NoRows == [row_content |-> <<>>, file_name |-> <<>>]

NoHist == [op |-> "new", direction |-> "", after_scroll |-> FALSE,
           before |-> CursorController_new(<<0, 0>>)]

\* nothing written yet: frame is what a flush wrote, complete whether the whole
\* buffer reached stdout (a failed write leaves an unknown part of it there), io
\* the steps of the frame in progress that have called stdout()
NoOutput == [frame |-> <<>>, complete |-> TRUE, io |-> {}]

\* no call on the StatusMessage yet. op is the last call, at its time, out what
\* message() returned, text and set_at the arguments of the last set_message (<<>>: none),
\* calls the number of message() calls since (2: two or more), expired whether
\* one of them returned None, was_expired the value of expired before the last
\* call, stayed_absent whether some message() call made after an expiry has
\* returned None.
NoReply == [op |-> "new", at |-> 0, out |-> <<>>, text |-> <<>>, set_at |-> <<>>,
            calls |-> 0, expired |-> FALSE, was_expired |-> FALSE,
            stayed_absent |-> FALSE]

\* no call recorded yet
NoCall == [op |-> "new", idx |-> 0, line |-> "", level |-> "", result |-> "Ok",
           before |-> <<>>, event |-> <<>>]

\* EditorApp::new / EditorDomain::new for a terminal whose window (the terminal
\* less the two lines of the bars) is w = (columns, rows)
AppNew(w) ==
    /\ terminal_size = <<w[1], w[2] + 2>>
    /\ window_size = w
    /\ status_message = StatusMessage_new(HelpText)
    /\ now = 0
    /\ buffer = <<>>
    /\ terminal = NoOutput
    /\ run_cursor = <<0, 0>>
    /\ reply = NoReply
    /\ grass = Grass_new
    /\ logger = Logger_new("Debug")
    /\ events = <<>>
    /\ disk = <<>>
    /\ call = NoCall

\* ------------------------------------------------------------------------
\* Inputs
\* ------------------------------------------------------------------------
\* the characters of a row: an ordinary character and the tab
RowChars == {"a", TAB}

\* a text file written from `lines`, the i-th line ended by terms[i]; the last
\* line, when it is not empty, may have no terminator (<<>>)
RECURSIVE Encode(_, _)
Encode(lines, terms) ==
    IF lines = <<>> THEN <<>>
    ELSE Head(lines) \o Head(terms) \o Encode(Tail(lines), Tail(terms))

Terminators(lines) ==
    { t \in [1..Len(lines) -> {<<LF>>, <<CR, LF>>, <<>>}] :
        \A i \in 1..Len(lines) :
            t[i] = <<>> => (i = Len(lines) /\ lines[i] /= <<>>) }

\* the files whose rows have at most maxLen characters, at most maxRows of them,
\* each line ended by '\n'
RowFiles(maxRows, maxLen) ==
    { File("f", Encode(l, [i \in 1..Len(l) |-> <<LF>>])) :
        l \in SeqsUpTo(SeqsUpTo(RowChars, maxLen), maxRows) }

\* ------------------------------------------------------------------------
\* Spec: the controller over a fixed row store, called in any order
\* ------------------------------------------------------------------------
Init ==
    /\ pc = "api"
    /\ arg \in {NoArg} \cup RowFiles(MaxRows, MaxRowLen)
    /\ source_lines = <<>>
    /\ editor_rows = EditorRows_new(arg)
    /\ \E w \in (1..MaxScreenCols) \X (1..MaxScreenRows) :
           cursor_controller = CursorController_new(w) /\ AppNew(w)
    /\ row = Row(<<>>, <<>>)
    /\ hist = NoHist
    /\ trace = <<>>

\* EditorDomain::move_cursor
CallMoveCursor(direction) ==
    /\ pc = "api"
    /\ cursor_controller' = move_cursor(cursor_controller, direction, editor_rows)
    /\ hist' = [op |-> "move", direction |-> direction,
                after_scroll |-> (hist.op = "scroll"),
                before |-> cursor_controller]
    /\ UNCHANGED <<pc, arg, source_lines, editor_rows, row>>
    /\ UNCHANGED appvars

\* EditorDomain::scroll
CallScroll ==
    /\ pc = "api"
    /\ cursor_controller' = scroll(cursor_controller, editor_rows)
    /\ hist' = [op |-> "scroll",
                direction |-> IF hist.op = "move" THEN hist.direction ELSE "",
                after_scroll |-> (hist.op = "move" /\ hist.after_scroll),
                before |-> cursor_controller]
    /\ UNCHANGED <<pc, arg, source_lines, editor_rows, row>>
    /\ UNCHANGED appvars

MoveCursor(direction) == CallMoveCursor(direction) /\ UNCHANGED trace

Scroll == CallScroll /\ UNCHANGED trace

Next ==
    \/ \E direction \in Directions : MoveCursor(direction)
    \/ Scroll

Spec == Init /\ [][Next]_vars

\* ------------------------------------------------------------------------
\* RenderSpec: render_row applied to one Row
\* ------------------------------------------------------------------------
\* the characters of a raw row: two ordinary characters and the tab
RenderChars == {"a", "b", TAB}

RenderInit ==
    /\ pc = "raw"
    /\ row \in { Row(raw, <<>>) : raw \in SeqsUpTo(RenderChars, MaxRawLen) }
    /\ arg = NoArg
    /\ source_lines = <<>>
    /\ editor_rows = [row_content |-> <<row>>, file_name |-> <<>>]
    /\ cursor_controller = CursorController_new(<<1, 1>>)
    /\ AppNew(<<1, 1>>)
    /\ hist = NoHist
    /\ trace = <<>>

\* render_row(&mut row); trace counts the calls, up to two
RenderRow ==
    /\ pc \in {"raw", "rendered"}
    /\ row' = render_row(row)
    /\ pc' = "rendered"
    /\ trace' = IF Len(trace) < 2 THEN Append(trace, "render_row") ELSE trace
    /\ UNCHANGED <<arg, source_lines, editor_rows, cursor_controller, hist>>
    /\ UNCHANGED appvars

\* a controller constructed over the store that holds the row, its cursor set
\* at column x of the row or of the sentinel row, then scroll
RenderScroll ==
    /\ pc = "raw"
    /\ pc' = "scrolled"
    /\ \E x \in 0..Len(row.row_content), y \in 0..1 :
         LET ctl == set_cursor_position(CursorController_new(window_size), x, y)
         IN  /\ cursor_controller' = scroll(ctl, editor_rows)
             /\ hist' = [op |-> "scroll", direction |-> "", after_scroll |-> FALSE,
                         before |-> ctl]
    /\ UNCHANGED <<arg, source_lines, editor_rows, row, trace>>
    /\ UNCHANGED appvars

RenderNext == RenderRow \/ RenderScroll

RenderSpec == RenderInit /\ [][RenderNext]_vars

\* ------------------------------------------------------------------------
\* LoadSpec: the row store constructed from the command-line argument
\* ------------------------------------------------------------------------
LoadInit ==
    /\ pc = "args"
    /\ \/ arg = NoArg /\ source_lines = <<>>
       \/ \E lines \in SeqsUpTo(SeqsUpTo(RowChars, MaxLineLen), MaxLines) :
            \E terms \in Terminators(lines) :
                /\ arg = File("f", Encode(lines, terms))
                /\ source_lines = lines
       \/ arg = Unreadable("f") /\ source_lines = <<>>
    /\ editor_rows = NoRows
    /\ cursor_controller = CursorController_new(<<1, 1>>)
    /\ AppNew(<<1, 1>>)
    /\ row = Row(<<>>, <<>>)
    /\ hist = NoHist
    /\ trace = <<>>

\* EditorDomain::new building its row store: EditorRows::new()
Construct ==
    /\ pc = "args"
    /\ IF arg /= NoArg /\ read_to_string_fails(arg)
       THEN pc' = "panic" /\ UNCHANGED editor_rows
       ELSE pc' = "constructed" /\ editor_rows' = EditorRows_new(arg)
    /\ UNCHANGED <<arg, source_lines, cursor_controller, row, hist, trace>>
    /\ UNCHANGED appvars

LoadNext == Construct

LoadSpec == LoadInit /\ [][LoadNext]_vars

\* ------------------------------------------------------------------------
\* ScenarioSpec: the controller over the three rows of the end-to-end scenario
\* ------------------------------------------------------------------------
ScenarioRows ==
    << <<"H", "e", "l", "l", "o", " ", "W", "o", "r", "l", "d">>,
       <<>>,
       <<TAB, "T", "a", "b", "b", "e", "d">> >>

ScenarioWindow == <<80, 24>>

ScenarioInit ==
    /\ pc = "api"
    /\ arg = File("f", Encode(ScenarioRows, [i \in 1..3 |-> <<LF>>]))
    /\ source_lines = ScenarioRows
    /\ editor_rows = EditorRows_new(arg)
    /\ cursor_controller = CursorController_new(ScenarioWindow)
    /\ AppNew(ScenarioWindow)
    /\ row = Row(<<>>, <<>>)
    /\ hist = NoHist
    /\ trace = <<>>

ScenarioMove(direction) ==
    /\ Len(trace) < MaxTrace
    /\ CallMoveCursor(direction)
    /\ trace' = Append(trace, direction)

ScenarioScroll ==
    /\ Len(trace) < MaxTrace
    /\ CallScroll
    /\ trace' = Append(trace, "scroll")

ScenarioNext ==
    \/ \E direction \in Directions : ScenarioMove(direction)
    \/ ScenarioScroll

ScenarioSpec == ScenarioInit /\ [][ScenarioNext]_vars

\* ------------------------------------------------------------------------
\* AppSpec: the driver loop, `while app.run()? {}`, one frame per key event
\* ------------------------------------------------------------------------
\* the files the editor is started on: rows of at most one character (a frame
\* shows get_render, which from_file leaves empty; the length of a row only
\* limits cursor_x)
AppFiles == RowFiles(MaxRows, 1)

AppInit ==
    /\ pc = "run"
    /\ arg \in {NoArg} \cup AppFiles
    /\ source_lines = <<>>
    /\ editor_rows = EditorRows_new(arg)
    /\ \E w \in ((0..MaxAppCols) \cup {WideCols}) \X ((1..MaxScreenRows) \cup {TallRows}) :
           cursor_controller = CursorController_new(w) /\ AppNew(w)
    /\ row = Row(<<>>, <<>>)
    /\ hist = NoHist
    /\ trace = <<>>

\* what the steps of a frame leave alone
FrameUnchanged ==
    UNCHANGED <<arg, source_lines, editor_rows, row, window_size, now, reply,
                grass, logger, events, disk, call>>

\* run: `let (cursor_x, cursor_y) = self.domain.get_cursor_position();`
\* A subtraction that underflows panics in a debug build and wraps in a release
\* build.
RunGetCursorPosition ==
    /\ pc = "run"
    /\ LET p == get_cursor_position(cursor_controller)
       IN  \/ /\ run_cursor' = p
              /\ pc' = "scroll"
           \/ /\ (p[1] < 0 \/ p[2] < 0)
              /\ pc' = "panic"
              /\ UNCHANGED run_cursor
    /\ terminal' = [terminal EXCEPT !.io = {}]
    /\ UNCHANGED <<cursor_controller, hist, status_message, buffer>>
    /\ trace' = <<"get_cursor_position">>
    /\ FrameUnchanged /\ UNCHANGED terminal_size

\* run: `self.domain.scroll();`
RunScroll ==
    /\ pc = "scroll"
    /\ cursor_controller' = scroll(cursor_controller, editor_rows)
    /\ hist' = [op |-> "scroll",
                direction |-> IF hist.op = "move" THEN hist.direction ELSE "",
                after_scroll |-> (hist.op = "move" /\ hist.after_scroll),
                before |-> cursor_controller]
    /\ pc' = "reset_screen"
    /\ UNCHANGED <<status_message, buffer, terminal, run_cursor>>
    /\ trace' = Append(trace, "scroll")
    /\ FrameUnchanged /\ UNCHANGED terminal_size

\* run: `self.writer.reset_screen(self.domain.get_buffer(), None).unwrap();`
RunResetScreen ==
    /\ pc = "reset_screen"
    /\ buffer' = buffer \o reset_screen
    /\ pc' = "draw_rows"
    /\ UNCHANGED <<cursor_controller, hist, status_message, terminal, run_cursor>>
    /\ trace' = Append(trace, "reset_screen")
    /\ FrameUnchanged /\ UNCHANGED terminal_size

\* run: `self.domain.draw_rows().unwrap();` Every line ends with
\* `stdout().flush()?`, which can fail: the lines up to that one are in the
\* buffer and the unwrap panics.
RunDrawRows ==
    /\ pc = "draw_rows"
    /\ \/ /\ buffer' = buffer \o draw_rows(editor_rows, cursor_controller, window_size)
          /\ pc' = "draw_status_bar"
       \/ \E failed \in 1..window_size[2] :
            /\ buffer' = buffer \o draw_rows_lines(editor_rows, cursor_controller,
                                                   window_size, failed)
            /\ pc' = "panic"
    /\ terminal' = [terminal EXCEPT
                      !.io = IF window_size[2] > 0 THEN @ \cup {"draw_rows"} ELSE @]
    /\ UNCHANGED <<cursor_controller, hist, status_message, run_cursor>>
    /\ trace' = Append(trace, "draw_rows")
    /\ FrameUnchanged /\ UNCHANGED terminal_size

\* run: `self.domain.draw_status_bar();`
RunDrawStatusBar ==
    /\ pc = "draw_status_bar"
    /\ IF draw_status_bar_fails(editor_rows, cursor_controller, window_size)
       THEN /\ buffer' = buffer \o <<Cmd("Reverse"), Cmd("Bold")>>
            /\ pc' = "panic"
       ELSE /\ buffer' = buffer \o draw_status_bar(editor_rows, cursor_controller,
                                                   window_size)
            /\ pc' = "draw_message_bar"
    /\ UNCHANGED <<cursor_controller, hist, status_message, terminal, run_cursor>>
    /\ trace' = Append(trace, "draw_status_bar")
    /\ FrameUnchanged /\ UNCHANGED terminal_size

\* run: `self.domain.draw_message_bar();`
RunDrawMessageBar ==
    /\ pc = "draw_message_bar"
    /\ LET m == message(status_message, now)
       IN  /\ status_message' = m.sm
           /\ buffer' = buffer \o draw_message_bar(m.out, window_size)
    /\ pc' = "cursor_event"
    /\ UNCHANGED <<cursor_controller, hist, terminal, run_cursor>>
    /\ trace' = Append(trace, "draw_message_bar")
    /\ FrameUnchanged /\ UNCHANGED terminal_size

\* run's cursor_event step going on to the key event without the flush
RunCursorEvent_without_flush ==
    /\ pc = "cursor_event"
    /\ buffer' = buffer \o cursor_event(<<MoveTo(AsU16(run_cursor[1]), AsU16(run_cursor[2])),
                                          Cmd("Show")>>)
    /\ pc' = "process_keypress"
    /\ trace' = Append(trace, "cursor_event")
    /\ UNCHANGED <<cursor_controller, hist, status_message, terminal, run_cursor>>
    /\ FrameUnchanged /\ UNCHANGED terminal_size

\* run: `self.writer.cursor_event(buffer, &[MoveTo(cursor_x as u16, cursor_y as u16), Show]).unwrap();`
RunCursorEvent ==
    /\ pc = "cursor_event"
    /\ buffer' = buffer \o cursor_event(<<MoveTo(AsU16(run_cursor[1]), AsU16(run_cursor[2])),
                                          Cmd("Show")>>)
    /\ pc' = "flush"
    /\ UNCHANGED <<cursor_controller, hist, status_message, terminal, run_cursor>>
    /\ trace' = Append(trace, "cursor_event")
    /\ FrameUnchanged /\ UNCHANGED terminal_size

\* run: `self.writer.flush(self.domain.get_buffer()).unwrap();`
\* EditorBuffer::flush: `let out = write!(stdout(), ..); stdout().flush()?;
\* self.buffer.clear(); out`
RunFlush ==
    /\ pc = "flush"
    /\ \/ /\ terminal' = [frame |-> flush(buffer).written, complete |-> TRUE,
                          io |-> terminal.io \cup {"flush"}]
          /\ buffer' = flush(buffer).buffer
          /\ pc' = "process_keypress"
       \/ \* the write fails, the flush of stdout succeeds
          /\ terminal' = [frame |-> <<>>, complete |-> FALSE,
                          io |-> terminal.io \cup {"flush"}]
          /\ buffer' = <<>>
          /\ pc' = "panic"
       \/ \* the flush of stdout fails: flush returns before the clear
          /\ terminal' = [frame |-> <<>>, complete |-> FALSE,
                          io |-> terminal.io \cup {"flush"}]
          /\ UNCHANGED buffer
          /\ pc' = "panic"
    /\ UNCHANGED <<cursor_controller, hist, status_message, run_cursor>>
    /\ trace' = Append(trace, "flush")
    /\ FrameUnchanged /\ UNCHANGED terminal_size

\* run: `self.process_keypress()`, read_key having returned `event`
RunProcessKeypress ==
    /\ pc = "process_keypress"
    /\ \E event \in KeyEvents :
         IF is_quit(event)
         THEN /\ pc' = "exit"
              /\ UNCHANGED <<cursor_controller, hist>>
         ELSE /\ pc' = "run"
              /\ cursor_controller' =
                    process_keypress(cursor_controller, event, editor_rows, terminal_size)
              /\ hist' = IF event.code \in {"h", "j", "k", "l", "PageUp", "PageDown"}
                         THEN [op |-> "move", direction |-> event.code,
                               after_scroll |-> (hist.op = "scroll"),
                               before |-> cursor_controller]
                         ELSE hist
    /\ UNCHANGED <<status_message, buffer, terminal, run_cursor>>
    /\ trace' = Append(trace, "process_keypress")
    /\ FrameUnchanged /\ UNCHANGED terminal_size

\* run: `self.process_keypress()`, read_key having failed: run returns the error
RunReadKeyFails ==
    /\ pc = "process_keypress"
    /\ pc' = "error"
    /\ UNCHANGED <<cursor_controller, hist, status_message, buffer, terminal, run_cursor>>
    /\ trace' = Append(trace, "process_keypress")
    /\ FrameUnchanged /\ UNCHANGED terminal_size

\* the terminal is resized while run waits for a key: terminal::size() changes,
\* the window_size and the screen_rows fixed at construction do not
Resize ==
    /\ pc = "process_keypress"
    /\ \E h \in 1..MaxScreenRows :
         /\ h + 2 /= terminal_size[2]
         /\ terminal_size' = <<terminal_size[1], h + 2>>
    /\ UNCHANGED <<pc, cursor_controller, hist, status_message, buffer, terminal,
                   run_cursor>>
    /\ FrameUnchanged /\ UNCHANGED trace

AppNext ==
    \/ Resize
    \/ RunGetCursorPosition
    \/ RunScroll
    \/ RunResetScreen
    \/ RunDrawRows
    \/ RunDrawStatusBar
    \/ RunDrawMessageBar
    \/ RunCursorEvent
    \/ RunFlush
    \/ RunProcessKeypress
    \/ RunReadKeyFails

AppSpec == AppInit /\ [][AppNext]_vars

\* ------------------------------------------------------------------------
\* StatusSpec: the StatusMessage, set and read in any order while time passes
\* ------------------------------------------------------------------------
MessageTexts == {<<"x">>, <<"y">>}

StatusInit ==
    /\ pc = "api"
    /\ arg = NoArg
    /\ source_lines = <<>>
    /\ editor_rows = NoRows
    /\ cursor_controller = CursorController_new(<<1, 1>>)
    /\ AppNew(<<1, 1>>)
    /\ row = Row(<<>>, <<>>)
    /\ hist = NoHist
    /\ trace = <<>>

StatusUnchanged ==
    UNCHANGED <<pc, arg, source_lines, editor_rows, cursor_controller, row, hist,
                trace, terminal_size, window_size, buffer, terminal, run_cursor,
                grass, logger, events, disk, call>>

\* StatusMessage::set_message(text)
SetMessage(text) ==
    /\ status_message' = set_message(status_message, text, now)
    /\ reply' = [op |-> "set_message", at |-> now, out |-> <<>>, text |-> <<text>>,
                 set_at |-> <<now>>, calls |-> 0, expired |-> FALSE,
                 was_expired |-> reply.expired,
                 stayed_absent |-> reply.stayed_absent]
    /\ UNCHANGED now
    /\ StatusUnchanged

\* StatusMessage::message()
Message ==
    /\ LET m == message(status_message, now)
       IN  /\ status_message' = m.sm
           /\ reply' = [reply EXCEPT
                 !.op = "message",
                 !.at = now,
                 !.out = m.out,
                 !.calls = Min(reply.calls + 1, 2),
                 !.expired = reply.expired \/ (reply.set_at /= <<>> /\ m.out = <<>>),
                 !.was_expired = reply.expired,
                 !.stayed_absent = reply.stayed_absent
                                   \/ (reply.expired /\ m.out = <<>>)]
    /\ UNCHANGED now
    /\ StatusUnchanged

\* a second passes
Tick ==
    /\ now < MaxTime
    /\ now' = now + 1
    /\ UNCHANGED <<status_message, reply>>
    /\ StatusUnchanged

StatusNext ==
    \/ \E text \in MessageTexts : SetMessage(text)
    \/ Message
    \/ Tick

StatusSpec == StatusInit /\ [][StatusNext]_vars

\* ------------------------------------------------------------------------
\* GrassSpec: the line operations of a Grass, called in any order
\* ------------------------------------------------------------------------
GrassLines == {"x", "y", "z"}

\* the editor is not running
EditorIdle ==
    /\ pc = "api"
    /\ arg = NoArg
    /\ source_lines = <<>>
    /\ editor_rows = NoRows
    /\ cursor_controller = CursorController_new(<<1, 1>>)
    /\ row = Row(<<>>, <<>>)
    /\ hist = NoHist
    /\ trace = <<>>

EditorUnchanged ==
    UNCHANGED <<pc, arg, source_lines, editor_rows, cursor_controller, row, hist,
                trace, terminal_size, window_size, status_message, now, buffer,
                terminal, run_cursor, reply, events, disk>>

GrassInit == EditorIdle /\ AppNew(<<1, 1>>)

InsertLine(idx, line) ==
    /\ Len(grass) < MaxGrassLen
    /\ grass' = insert_line(grass, idx, line)
    /\ call' = [NoCall EXCEPT !.op = "insert_line", !.idx = idx, !.line = line,
                              !.before = grass]
    /\ UNCHANGED logger
    /\ EditorUnchanged

RemoveLine(idx) ==
    /\ grass' = remove_line(grass, idx)
    /\ call' = [NoCall EXCEPT !.op = "remove_line", !.idx = idx, !.before = grass]
    /\ UNCHANGED logger
    /\ EditorUnchanged

EditLine(idx, line) ==
    /\ grass' = edit_line(grass, idx, line)
    /\ call' = [NoCall EXCEPT !.op = "edit_line", !.idx = idx, !.line = line,
                              !.before = grass]
    /\ UNCHANGED logger
    /\ EditorUnchanged

GrassNext ==
    \E idx \in 0..(MaxGrassLen + 1) :
        \/ \E line \in GrassLines : InsertLine(idx, line)
        \/ RemoveLine(idx)
        \/ \E line \in GrassLines : EditLine(idx, line)

GrassSpec == GrassInit /\ [][GrassNext]_vars

\* ------------------------------------------------------------------------
\* SaveSpec: a Grass is filled line by line, saved to a file that has any
\* content before, and the file is loaded into a fresh Grass
\* ------------------------------------------------------------------------
\* the lines put into the buffer: texts without line terminators
SavedLines == SeqsUpTo({"a"}, MaxLineLen)

\* what the file holds before the save; <<>> is also the file that does not exist
PriorContents == SeqsUpTo({"b", LF}, MaxPrior)

SaveInit ==
    /\ EditorIdle
    /\ terminal_size = <<1, 3>>
    /\ window_size = <<1, 1>>
    /\ status_message = StatusMessage_new(HelpText)
    /\ now = 0
    /\ buffer = <<>>
    /\ terminal = NoOutput
    /\ run_cursor = <<0, 0>>
    /\ reply = NoReply
    /\ grass = Grass_new
    /\ logger = Logger_new("Debug")
    /\ events = <<>>
    /\ disk \in PriorContents
    /\ call = NoCall

SaveUnchanged ==
    UNCHANGED <<arg, source_lines, editor_rows, cursor_controller, row, hist,
                trace, terminal_size, window_size, status_message, now, buffer,
                terminal, run_cursor, reply, logger, events>>

\* grass.insert_line(len, line) before the save
FillLine(line) ==
    /\ pc = "api"
    /\ Len(grass) < MaxLines
    /\ grass' = insert_line(grass, Len(grass), line)
    /\ UNCHANGED <<pc, disk, call>>
    /\ SaveUnchanged

\* grass.save_file(path) returns Ok(())
SaveFile ==
    /\ pc = "api"
    /\ pc' = "saved"
    /\ disk' = save_file(grass, disk)
    /\ call' = [NoCall EXCEPT !.op = "save_file", !.before = disk]
    /\ UNCHANGED grass
    /\ SaveUnchanged

\* Grass::new().load_file(path) returns Ok(()): grass is the fresh Grass,
\* call.before the buffer that was saved
LoadFile ==
    /\ pc = "saved"
    /\ pc' = "loaded"
    /\ grass' = load_file(disk)
    /\ call' = [NoCall EXCEPT !.op = "load_file", !.before = grass]
    /\ UNCHANGED disk
    /\ SaveUnchanged

\* the open of save_file or of load_file fails: Err is returned, nothing is
\* written or loaded
OpenFails ==
    /\ pc \in {"api", "saved"}
    /\ pc' = "error"
    /\ call' = [NoCall EXCEPT !.op = IF pc = "api" THEN "save_file" ELSE "load_file",
                              !.result = "Err", !.before = grass]
    /\ UNCHANGED <<grass, disk>>
    /\ SaveUnchanged

SaveNext ==
    \/ \E line \in SavedLines : FillLine(line)
    \/ SaveFile
    \/ LoadFile
    \/ OpenFails

SaveSpec == SaveInit /\ [][SaveNext]_vars

\* ------------------------------------------------------------------------
\* LoggerSpec: a Logger of any level, messages of any level logged to it
\* ------------------------------------------------------------------------
Levels == {LogLevel[i] : i \in 1..Len(LogLevel)}

LoggerInit ==
    /\ EditorIdle
    /\ \E level \in Levels :
         /\ logger = Logger_new(level)
         /\ terminal_size = <<1, 3>>
         /\ window_size = <<1, 1>>
         /\ status_message = StatusMessage_new(HelpText)
         /\ now = 0
         /\ buffer = <<>>
         /\ terminal = NoOutput
         /\ run_cursor = <<0, 0>>
         /\ reply = NoReply
         /\ grass = Grass_new
         /\ events = <<>>
         /\ disk = <<>>
         /\ call = NoCall

\* Logger::log(level, "m"): file.write_all returns Ok, or an error that log
\* returns
Log(level) ==
    /\ Len(logger.file) < MaxLogLines
    /\ \/ /\ logger' = log(logger, level, "m")
          /\ call' = [NoCall EXCEPT !.op = "log", !.level = level, !.line = "m",
                                    !.before = logger.file]
       \/ /\ Ord(level) <= Ord(logger.level)
          /\ UNCHANGED logger
          /\ call' = [NoCall EXCEPT !.op = "log", !.level = level, !.line = "m",
                                    !.result = "Err", !.before = logger.file]
    /\ UNCHANGED grass
    /\ EditorUnchanged

LoggerNext == \E level \in Levels : Log(level)

LoggerSpec == LoggerInit /\ [][LoggerNext]_vars

\* ------------------------------------------------------------------------
\* KeySpec: process_keypress on every key event, run's scroll between the keys
\* ------------------------------------------------------------------------
\* key events besides those of KeyEvents: keys process_keypress has no arm for,
\* and modifiers besides CONTROL
OtherKeyEvents ==
    [code : {"q", "h", "Home", "End", "Up"},
     modifiers : {"NONE", "CONTROL", "CONTROL|ALT", "SHIFT"}]

KeyInit ==
    /\ pc = "process_keypress"
    /\ arg \in {NoArg} \cup AppFiles
    /\ source_lines = <<>>
    /\ editor_rows = EditorRows_new(arg)
    /\ \E w \in (1..MaxScreenCols) \X (1..MaxScreenRows) :
           cursor_controller = CursorController_new(w) /\ AppNew(w)
    /\ row = Row(<<>>, <<>>)
    /\ hist = NoHist
    /\ trace = <<>>

KeyUnchanged ==
    UNCHANGED <<arg, source_lines, editor_rows, row, hist, trace, terminal_size,
                window_size, status_message, now, buffer, terminal, run_cursor,
                reply, grass, logger, events, disk>>

\* EditorApp::process_keypress, read_key having returned `event`: Ok(false) ends
\* the loop of main, Ok(true) is followed by the next run
ProcessKeypress(event) ==
    /\ pc = "process_keypress"
    /\ IF is_quit(event)
       THEN /\ pc' = "exit"
            /\ UNCHANGED cursor_controller
       ELSE /\ pc' = "run"
            /\ cursor_controller' =
                  process_keypress(cursor_controller, event, editor_rows, terminal_size)
    /\ call' = [NoCall EXCEPT !.op = "process_keypress", !.event = event,
                              !.result = IF is_quit(event) THEN "Ok(false)"
                                         ELSE "Ok(true)",
                              !.before = <<cursor_controller, editor_rows>>]
    /\ KeyUnchanged

\* EditorApp::run up to process_keypress: what it does to the controller
KeyRun ==
    /\ pc = "run"
    /\ pc' = "process_keypress"
    /\ cursor_controller' = scroll(cursor_controller, editor_rows)
    /\ UNCHANGED call
    /\ KeyUnchanged

KeyNext ==
    \/ \E event \in KeyEvents \cup OtherKeyEvents : ProcessKeypress(event)
    \/ KeyRun

KeySpec == KeyInit /\ [][KeyNext]_vars

\* ------------------------------------------------------------------------
\* ReadSpec: one call of ReaderAdapter::read_key while terminal events arrive;
\* trace is every event that has arrived, call.idx the polls that timed out
\* ------------------------------------------------------------------------
TerminalEvents == {Key("j"), Key("q"), OtherEvent("Resize"), OtherEvent("Mouse")}

ReadInit ==
    /\ EditorIdle
    /\ \E w \in {<<1, 1>>} : AppNew(w)

ReadUnchanged ==
    UNCHANGED <<arg, source_lines, editor_rows, cursor_controller, row, hist,
                terminal_size, window_size, status_message, now, buffer, terminal,
                run_cursor, reply, grass, logger, disk>>

\* the terminal gets an event
Arrive(event) ==
    /\ Len(trace) < MaxEvents
    /\ events' = Append(events, event)
    /\ trace' = Append(trace, event)
    /\ UNCHANGED <<pc, call>>
    /\ ReadUnchanged

\* poll_event(500 ms) returns Ok(false): no event within the timeout, the loop
\* polls again
PollTimeout ==
    /\ pc = "api"
    /\ events = <<>>
    /\ call' = [call EXCEPT !.op = "read_key", !.idx = Min(call.idx + 1, MaxPolls)]
    /\ UNCHANGED <<pc, events, trace>>
    /\ ReadUnchanged

\* poll_event returns Ok(true): an event is available
PollReady ==
    /\ pc = "api"
    /\ events /= <<>>
    /\ pc' = "read_event"
    /\ call' = [call EXCEPT !.op = "read_key"]
    /\ UNCHANGED <<events, trace>>
    /\ ReadUnchanged

\* poll_event returns Err: `?` returns it
PollFails ==
    /\ pc = "api"
    /\ pc' = "error"
    /\ call' = [call EXCEPT !.op = "read_key", !.result = "Err(PollError)"]
    /\ UNCHANGED <<events, trace>>
    /\ ReadUnchanged

\* a read_event that hands any event to the caller
ReadEvent_returns_any_event ==
    /\ pc = "read_event"
    /\ events' = Tail(events)
    /\ pc' = "returned"
    /\ call' = [call EXCEPT !.event = Head(events), !.result = "Ok"]
    /\ UNCHANGED trace
    /\ ReadUnchanged

\* read_event returns Ok(event): `if let Event::Key(event)` returns it, any other
\* event is dropped and the loop polls again
ReadEvent ==
    /\ pc = "read_event"
    /\ events' = Tail(events)
    /\ IF Head(events).t = "Key"
       THEN /\ pc' = "returned"
            /\ call' = [call EXCEPT !.event = Head(events), !.result = "Ok"]
       ELSE /\ pc' = "api"
            /\ UNCHANGED call
    /\ UNCHANGED trace
    /\ ReadUnchanged

\* read_event returns Err: `?` returns it
ReadFails ==
    /\ pc = "read_event"
    /\ pc' = "error"
    /\ call' = [call EXCEPT !.result = "Err(ReadError)"]
    /\ UNCHANGED <<events, trace>>
    /\ ReadUnchanged

ReadNext ==
    \/ \E event \in TerminalEvents : Arrive(event)
    \/ PollTimeout
    \/ PollReady
    \/ PollFails
    \/ ReadEvent
    \/ ReadFails

\* the thread of read_key keeps running: a step of its loop that can be taken
\* is taken
ReadSpec ==
    /\ ReadInit /\ [][ReadNext]_vars
    /\ WF_vars(PollReady) /\ WF_vars(ReadEvent)

\* ------------------------------------------------------------------------
\* WriterSpec: cursor_event and reset_screen on a buffer whose operations may
\* fail
\* ------------------------------------------------------------------------
CursorEventTypes ==
    {[t |-> "Show", x |-> 0, y |-> 0], [t |-> "Hide", x |-> 0, y |-> 0],
     [t |-> "MoveTo", x |-> 1, y |-> 2], [t |-> "None", x |-> 0, y |-> 0]}

WriterInit ==
    /\ EditorIdle
    /\ \E w \in {<<1, 1>>} : AppNew(w)

WriterUnchanged ==
    UNCHANGED <<pc, arg, source_lines, editor_rows, cursor_controller, row, hist,
                trace, terminal_size, window_size, status_message, now, terminal,
                run_cursor, reply, grass, logger, events, disk>>

\* writer.cursor_event(buffer, cursor_events), the buffer emptied before it
CursorEvent(cursor_events, fail_at) ==
    /\ LET out == WriterAdapter_cursor_event(<<>>, cursor_events, fail_at)
       IN  /\ buffer' = out.buffer
           /\ call' = [NoCall EXCEPT !.op = "cursor_event", !.event = cursor_events,
                                     !.idx = fail_at, !.result = out.res]
    /\ WriterUnchanged

\* writer.reset_screen(buffer, None), the buffer emptied before it
ResetScreen(fails) ==
    /\ LET out == WriterAdapter_reset_screen(<<>>, fails)
       IN  /\ buffer' = out.buffer
           /\ call' = [NoCall EXCEPT !.op = "reset_screen", !.line = fails,
                                     !.result = out.res]
    /\ WriterUnchanged

WriterNext ==
    \/ \E cursor_events \in SeqsUpTo(CursorEventTypes, MaxCursorEvents),
          fail_at \in 0..MaxCursorEvents : CursorEvent(cursor_events, fail_at)
    \/ \E fails \in {"", "hide_cursor", "clear_screen", "move_cursor_to"} :
          ResetScreen(fails)

WriterSpec == WriterInit /\ [][WriterNext]_vars

\* ------------------------------------------------------------------------
\* ByteSpec: the controller over rows that hold a character of two bytes
\* ------------------------------------------------------------------------
\* the rows: valid UTF-8 with at most one two-byte character
ByteLines ==
    {<<>>, <<"a">>, <<LeadByte, ContinuationByte>>,
     <<"a", LeadByte, ContinuationByte>>, <<LeadByte, ContinuationByte, "a">>}

ByteFiles ==
    { File("f", Encode(l, [i \in 1..Len(l) |-> <<LF>>])) :
        l \in SeqsUpTo(ByteLines, MaxRows) }

ByteInit ==
    /\ pc = "api"
    /\ arg \in ByteFiles
    /\ source_lines = <<>>
    /\ editor_rows = EditorRows_new(arg)
    /\ \E w \in (1..MaxScreenCols) \X (1..MaxScreenRows) :
           cursor_controller = CursorController_new(w) /\ AppNew(w)
    /\ row = Row(<<>>, <<>>)
    /\ hist = NoHist
    /\ trace = <<>>

\* EditorDomain::move_cursor
ByteMoveCursor(direction) == CallMoveCursor(direction) /\ UNCHANGED trace

\* EditorDomain::scroll: get_render_x slices the row at cursor_x, and the slice
\* panics when cursor_x is inside a character
ByteScroll ==
    /\ pc = "api"
    /\ IF /\ cursor_controller.cursor_y < number_of_rows(editor_rows)
          /\ get_render_x_panics(cursor_controller,
                                 get_editor_row(editor_rows, cursor_controller.cursor_y))
       THEN /\ pc' = "panic"
            /\ UNCHANGED cursor_controller
       ELSE /\ pc' = pc
            /\ cursor_controller' = scroll(cursor_controller, editor_rows)
    /\ hist' = [op |-> "scroll",
                direction |-> IF hist.op = "move" THEN hist.direction ELSE "",
                after_scroll |-> (hist.op = "move" /\ hist.after_scroll),
                before |-> cursor_controller]
    /\ UNCHANGED <<arg, source_lines, editor_rows, row, trace>>
    /\ UNCHANGED appvars

ByteNext ==
    \/ \E direction \in Directions : ByteMoveCursor(direction)
    \/ ByteScroll

ByteSpec == ByteInit /\ [][ByteNext]_vars

\* ------------------------------------------------------------------------
\* Shorthands for the claims
\* ------------------------------------------------------------------------
cc == cursor_controller

before == hist.before

NumRows == number_of_rows(editor_rows)

\* the length of row y, 0 on the sentinel row
RowLen(y) == IF y < NumRows THEN Len(get_row(editor_rows, y)) ELSE 0

Moved(direction) == hist.op = "move" /\ hist.direction = direction

\* scroll has just run, after exactly one move that followed a scroll
ScrolledAfterOneMove(directions) ==
    hist.op = "scroll" /\ hist.after_scroll /\ hist.direction \in directions

\* ------------------------------------------------------------------------
\* Claims on the controller (Spec)
\* ------------------------------------------------------------------------
\* C1: with screen_rows >= 1 and screen_cols >= 1, right after scroll() returns
\* the cursor is inside the window on both axes:
\* row_offset <= cursor_y < row_offset + screen_rows and
\* col_offset <= render_x < col_offset + screen_cols.
C1_ScrollKeepsCursorInWindow ==
    (hist.op = "scroll" /\ cc.screen_rows >= 1 /\ cc.screen_cols >= 1) =>
        /\ cc.row_offset <= cc.cursor_y
        /\ cc.cursor_y < cc.row_offset + cc.screen_rows
        /\ cc.col_offset <= cc.render_x
        /\ cc.render_x < cc.col_offset + cc.screen_cols

\* scroll has moved the window on both axes
C1_Witness ==
    /\ hist.op = "scroll"
    /\ cc.row_offset > 0 /\ cc.row_offset > before.row_offset
    /\ cc.col_offset > 0 /\ cc.col_offset > before.col_offset

\* C2: after any sequence of moves from (0,0), 0 <= cursor_y <= number_of_rows,
\* cursor_x <= length(row[cursor_y]) on a row of the store, and cursor_x = 0 on
\* the sentinel row.
C2_CursorWithinRows ==
    /\ 0 <= cc.cursor_y /\ cc.cursor_y <= NumRows
    /\ 0 <= cc.cursor_x
    /\ cc.cursor_y < NumRows => cc.cursor_x <= Len(get_row(editor_rows, cc.cursor_y))
    /\ cc.cursor_y = NumRows => cc.cursor_x = 0

\* a Down move landed on a shorter row (or the sentinel) and the column was clamped
C2_Witness ==
    /\ Moved("j")
    /\ before.cursor_x > 0
    /\ cc.cursor_y = before.cursor_y + 1
    /\ cc.cursor_x = RowLen(cc.cursor_y)
    /\ cc.cursor_x < before.cursor_x

\* C3: Left at column 0 of row k > 0 (k = number_of_rows included) goes to the end
\* of row k-1; Right at the end of row k with k+1 < number_of_rows goes to column 0
\* of row k+1.
C3_LineWrap ==
    /\ (Moved("h") /\ before.cursor_x = 0 /\ before.cursor_y > 0) =>
          /\ cc.cursor_y = before.cursor_y - 1
          /\ cc.cursor_x = Len(get_row(editor_rows, before.cursor_y - 1))
    /\ (Moved("l") /\ before.cursor_y + 1 < NumRows
                   /\ before.cursor_x = RowLen(before.cursor_y)) =>
          /\ cc.cursor_y = before.cursor_y + 1
          /\ cc.cursor_x = 0

\* a Left move from the sentinel row wrapped to the end of a non-empty last row
C3_Witness ==
    /\ Moved("h")
    /\ before.cursor_x = 0 /\ before.cursor_y = NumRows
    /\ cc.cursor_y = NumRows - 1
    /\ cc.cursor_x > 0

\* C4 as claimed: Right at the end of the last row leaves cursor_x unchanged.
C4_RightAtEndOfLastRowKeepsX ==
    (Moved("l") /\ before.cursor_y = NumRows - 1
                /\ before.cursor_x = RowLen(before.cursor_y)) =>
        cc.cursor_x = before.cursor_x

\* C4 amended: Right at the end of the last row moves the cursor to column 0 of
\* the sentinel row (cursor_y = number_of_rows); cursor_x is unchanged only when
\* the last row is empty.
C4_RightAtEndOfLastRowGoesToSentinel ==
    (Moved("l") /\ before.cursor_y = NumRows - 1
                /\ before.cursor_x = RowLen(before.cursor_y)) =>
        /\ cc.cursor_y = NumRows
        /\ cc.cursor_x = 0
        /\ (cc.cursor_x = before.cursor_x <=> RowLen(NumRows - 1) = 0)

\* Right was issued at the end of a non-empty last row
C4_Witness ==
    /\ Moved("l")
    /\ before.cursor_y = NumRows - 1
    /\ before.cursor_x = RowLen(before.cursor_y)
    /\ before.cursor_x > 0

\* C5 as claimed: scroll, one Up/Down/Left/Right move, scroll changes row_offset
\* by at most 1 and col_offset by at most 1.
C5_OffsetsChangeByAtMostOne ==
    ScrolledAfterOneMove({"k", "j", "h", "l"}) =>
        /\ Abs(cc.row_offset - before.row_offset) <= 1
        /\ Abs(cc.col_offset - before.col_offset) <= 1

\* C5 amended: scroll, one Up/Down/Left/Right move, scroll changes row_offset by
\* at most 1 and col_offset by at most as many columns as render_x changed (so by
\* at most 1 when the move changes render_x by at most 1).
C5_OffsetsChangeNoMoreThanCursor ==
    ScrolledAfterOneMove({"k", "j", "h", "l"}) =>
        /\ Abs(cc.row_offset - before.row_offset) <= 1
        /\ Abs(cc.col_offset - before.col_offset) <= Abs(cc.render_x - before.render_x)

\* one Left move wrapped to the end of a row with a tab and scroll moved the
\* window by more than one column
C5_Witness ==
    /\ ScrolledAfterOneMove({"h"})
    /\ cc.render_x - before.render_x > 1
    /\ cc.col_offset - before.col_offset > 1

\* ------------------------------------------------------------------------
\* Claims on the end-to-end scenario (ScenarioSpec)
\* ------------------------------------------------------------------------
ScenarioCalls == <<"End", "j", "j", "End", "scroll">>

\* C7 as claimed: End gives cursor (11,0); then Down, Down, End and scroll() give
\* render_x = 8, offsets (0,0) and get_cursor_position() = (8, 2).
C7_ScenarioAsClaimed ==
    /\ trace = <<"End">> => cc.cursor_x = 11 /\ cc.cursor_y = 0
    /\ trace = ScenarioCalls =>
          /\ cc.render_x = 8
          /\ cc.row_offset = 0 /\ cc.col_offset = 0
          /\ get_cursor_position(cc) = <<8, 2>>

\* C7 amended: End gives cursor (11,0); then Down, Down, End and scroll() give
\* cursor (7,2), render_x = 14, offsets (0,0) and get_cursor_position() = (14, 2).
C7_Scenario ==
    /\ trace = <<"End">> => cc.cursor_x = 11 /\ cc.cursor_y = 0
    /\ trace = ScenarioCalls =>
          /\ cc.cursor_x = 7 /\ cc.cursor_y = 2
          /\ cc.render_x = 14
          /\ cc.row_offset = 0 /\ cc.col_offset = 0
          /\ get_cursor_position(cc) = <<14, 2>>

\* the five calls of the scenario have been made
C7_Witness == trace = ScenarioCalls /\ hist.op = "scroll"

\* ------------------------------------------------------------------------
\* Claims on render_row (RenderSpec)
\* ------------------------------------------------------------------------
\* the smallest multiple of 8 strictly greater than c
NextTabColumn(c) == CHOOSE m \in (c + 1)..(c + 8) : m % 8 = 0

\* the rendered column (0-indexed) where character i of raw starts, as the claim
\* states it; column Len(raw) + 1 is the rendered length
ClaimedColumn(raw) ==
    LET col[i \in 1..(Len(raw) + 1)] ==
            IF i = 1 THEN 0
            ELSE IF raw[i - 1] = TAB THEN NextTabColumn(col[i - 1])
                 ELSE col[i - 1] + 1
    IN  col

\* C8: render_row replaces the tab found at rendered column c by spaces up to the
\* smallest multiple of 8 strictly greater than c and copies every other
\* character unchanged, in order; "a<TAB>b" renders to 'a', 7 spaces, 'b'.
C8_TabExpansion ==
    pc = "rendered" =>
        LET raw == row.row_content
            render == row.render
            col == ClaimedColumn(raw)
        IN  /\ Len(render) = col[Len(raw) + 1]
            /\ \A i \in 1..Len(raw) :
                  IF raw[i] = TAB
                  THEN \A j \in (col[i] + 1)..col[i + 1] : render[j] = SP
                  ELSE render[col[i] + 1] = raw[i]
            /\ raw = <<"a", TAB, "b">> =>
                  render = <<"a", SP, SP, SP, SP, SP, SP, SP, "b">>

\* "a<TAB>b" has been rendered
C8_Witness == pc = "rendered" /\ row.row_content = <<"a", TAB, "b">> /\ Len(row.render) = 9

\* ------------------------------------------------------------------------
\* Claims on loading (LoadSpec)
\* ------------------------------------------------------------------------
\* C9: after the row store is loaded, get_render(i) is the tab expansion of
\* get_row(i) for every i < number_of_rows().
C9_RenderComputedAtLoad ==
    pc = "constructed" =>
        \A i \in 0..(NumRows - 1) :
            get_render(editor_rows, i) = render_row(get_editor_row(editor_rows, i)).render

\* C10: loading a text made of N lines gives N rows, row i the i-th line without
\* any line-terminator character, in the original order.
C10_LoadRoundTrip ==
    (pc = "constructed" /\ arg /= NoArg) =>
        /\ NumRows = Len(source_lines)
        /\ \A i \in 0..(NumRows - 1) :
              /\ get_row(editor_rows, i) = source_lines[i + 1]
              /\ \A j \in 1..Len(get_row(editor_rows, i)) :
                    get_row(editor_rows, i)[j] \notin {LF, CR}

\* a text of two lines was loaded: an empty line ended by "\r\n", then a line with
\* no terminator
C10_Witness ==
    /\ pc = "constructed"
    /\ Len(source_lines) = 2
    /\ source_lines[1] = <<>>
    /\ arg.content[1] = CR
    /\ arg.content[Len(arg.content)] /= LF
    /\ NumRows = 2

\* ------------------------------------------------------------------------
\* Claims on the driver loop (AppSpec)
\* ------------------------------------------------------------------------
\* the MoveTo that run has queued for the hardware cursor: the item before Show
FrameMoveTo == buffer[Len(buffer) - 1]

\* C6: in every frame the hardware-cursor position emitted to the buffer is
\* (render_x - col_offset, cursor_y - row_offset) as it is after the scroll() of
\* that frame.
C6_MoveToIsPositionAfterScroll ==
    pc = "flush" =>
        FrameMoveTo = MoveTo(get_cursor_position(cc)[1], get_cursor_position(cc)[2])

\* ------------------------------------------------------------------------
\* Claims on the status message (StatusSpec)
\* ------------------------------------------------------------------------
\* the seconds between the last set_message and the last call
Elapsed == reply.at - reply.set_at[1]

\* C11: after set_message(t) at time s, message() called at time now returns t
\* only if now - s < 5 seconds; when 5 seconds or more have elapsed (exactly 5
\* included) it returns absent.
C11_MessageAbsentFromFiveSeconds ==
    (reply.op = "message" /\ reply.set_at /= <<>>) =>
        /\ reply.out /= <<>> => (reply.out = reply.text /\ Elapsed < 5)
        /\ Elapsed >= 5 => reply.out = <<>>

\* C12: once message() has returned absent because the message expired, every
\* later message() returns absent until set_message is called again; the first
\* message() after a set_message(t), called at once, returns t.
C12_ExpiredStaysAbsentUntilSet ==
    reply.op = "message" =>
        /\ reply.was_expired => reply.out = <<>>
        /\ (reply.set_at /= <<>> /\ reply.calls = 1 /\ Elapsed = 0) =>
              reply.out = reply.text

\* a message expired and message() returned absent again after that; then a
\* message was set and read at once
C12_Witness ==
    /\ reply.op = "message"
    /\ reply.stayed_absent
    /\ reply.set_at /= <<>>
    /\ reply.calls = 1 /\ Elapsed = 0 /\ reply.out = <<<<"y">>>>

\* ------------------------------------------------------------------------
\* Claims on the frame (AppSpec)
\* ------------------------------------------------------------------------
\* the first position of item in items
PositionOf(items, item) ==
    CHOOSE i \in 1..Len(items) :
        items[i] = item /\ \A j \in 1..(i - 1) : items[j] /= item

\* the last n items of items
Last(items, n) == SubSeq(items, Len(items) - n + 1, Len(items))

\* the items cut after every "\n"
RECURSIVE LinesOf(_)
LinesOf(items) ==
    IF items = <<>> THEN <<>>
    ELSE LET n == PositionOf(items, Ch(LF))
         IN  <<SubSeq(items, 1, n)>> \o LinesOf(SubSeq(items, n + 1, Len(items)))

\* draw_rows has returned Ok and nothing was appended since
RowsDrawn == pc = "draw_status_bar"

\* the lines draw_rows has appended, after the three items of reset_screen
DrawnLines == LinesOf(SubSeq(buffer, Len(reset_screen) + 1, Len(buffer)))

\* the content of a line: the line without its last three items
ContentOf(line) == SubSeq(line, 1, Len(line) - 3)

\* draw_status_bar has returned and nothing was appended since
StatusBarDrawn == pc = "draw_message_bar"

\* what draw_status_bar appended between the style-on and the style-reset
StatusBarText ==
    SubSeq(buffer, PositionOf(buffer, Cmd("Bold")) + 1,
                   PositionOf(buffer, Cmd("Reset")) - 1)

\* C13: the text draw_status_bar appends between the style-on and style-reset
\* sequences is exactly screen_cols characters wide, for every file name, row
\* count, cursor position and screen_cols.
C13_StatusBarIsScreenColsWide ==
    StatusBarDrawn =>
        /\ Len(StatusBarText) = window_size[1]
        /\ \A i \in 1..Len(StatusBarText) : StatusBarText[i].t = "ch"

\* C14: the right segment of the status bar is current_line/total_lines with
\* current_line = cursor_y + 1, the cursor's line in the file, and total_lines =
\* number_of_rows(), in every reachable state, row_offset > 0 included.
C14_StatusBarShowsFileLine ==
    StatusBarDrawn =>
        LET line_info == Decimal(cc.cursor_y + 1) \o <<"/">> \o Decimal(NumRows)
        IN  /\ Len(StatusBarText) >= Len(line_info)
            /\ Last(StatusBarText, Len(line_info)) = Chars(line_info)

\* the part of a row's tab-expanded content the claim says a line shows
ClaimedSlice(file_row) ==
    LET rendered == render_row(get_editor_row(editor_rows, file_row)).render
        visible_len == Min(Len(rendered) - cc.col_offset, window_size[1])
    IN  IF cc.col_offset >= Len(rendered) THEN <<>>
        ELSE SubSeq(rendered, cc.col_offset + 1, cc.col_offset + visible_len)

\* C15: for every screen line i with file_row = i + row_offset < number_of_rows,
\* draw_rows appends exactly rendered[col_offset .. col_offset + visible_len) of
\* the row's tab-expanded content, visible_len = min(rendered_length -
\* col_offset, screen_cols), and nothing when col_offset >= rendered_length.
C15_FileRowSlice ==
    RowsDrawn =>
        \A i \in 0..(window_size[2] - 1) :
            i + cc.row_offset < NumRows =>
                /\ ContentOf(DrawnLines[i + 1]) = Chars(ClaimedSlice(i + cc.row_offset))
                /\ Len(ContentOf(DrawnLines[i + 1])) <= window_size[1]

\* the welcome banner of a window screen_cols wide: the text cut to screen_cols,
\* after a padding of (screen_cols - length) / 2 items that starts with '~'
IsBanner(content) ==
    LET text == Take(WelcomeText, Min(Len(WelcomeText), window_size[1]))
        pad == (window_size[1] - Len(text)) \div 2
    IN  /\ Len(content) = pad + Len(text)
        /\ Last(content, Len(text)) = Chars(text)
        /\ pad > 0 => content[1] = Ch("~")
        /\ \A j \in 2..pad : content[j] = Ch(SP)

\* C16: draw_rows emits exactly screen_rows lines, each one its content, then
\* the clear to the end of the line, then the line separator; a line whose
\* file_row >= number_of_rows has content '~', unless the row store is empty and
\* i = screen_rows / 3: that one carries the welcome banner.
C16_DrawRowsLines ==
    RowsDrawn =>
        /\ Len(DrawnLines) = window_size[2]
        /\ \A i \in 0..(window_size[2] - 1) :
              LET line == DrawnLines[i + 1]
              IN  /\ Len(line) >= 3
                  /\ Last(line, 3) = <<Cmd("ClearUntilNewLine"), Ch(CR), Ch(LF)>>
                  /\ \A j \in 1..(Len(line) - 3) : line[j].t = "ch"
                  /\ i + cc.row_offset >= NumRows =>
                        IF NumRows = 0 /\ i = window_size[2] \div 3
                        THEN IsBanner(ContentOf(line))
                        ELSE ContentOf(line) = <<Ch("~")>>

\* a window wide enough to centre the banner and tall enough to have it below
\* the first line has been drawn for an empty row store
C16_Witness ==
    /\ RowsDrawn
    /\ NumRows = 0
    /\ window_size[1] > Len(WelcomeText) + 2
    /\ window_size[2] \div 3 > 0
    /\ IsBanner(ContentOf(DrawnLines[window_size[2] \div 3 + 1]))
    /\ ContentOf(DrawnLines[1]) = <<Ch("~")>>

\* everything the steps of the frame before the flush append, in their order
FrameItems ==
    reset_screen
    \o draw_rows(editor_rows, cc, window_size)
    \o draw_status_bar(editor_rows, cc, window_size)
    \o draw_message_bar(message(status_message, now).out, window_size)
    \o <<MoveTo(AsU16(run_cursor[1]), AsU16(run_cursor[2])), Cmd("Show")>>

\* C17: after a successful flush the buffer is empty and the terminal has
\* received, once and in append order, everything appended since the previous
\* flush; so the buffer is empty at the start of every frame.
C17_FlushWritesFrameOnce ==
    /\ pc = "process_keypress" =>
          /\ buffer = <<>>
          /\ terminal.complete
          /\ terminal.frame = FrameItems
    /\ pc = "run" => buffer = <<>>

\* the frame that follows a move has been flushed
C17_Witness ==
    /\ pc = "process_keypress"
    /\ hist.op = "scroll" /\ hist.direction = "j"
    /\ terminal.frame /= <<>>
    /\ buffer = <<>>

\* the stdout().flush() of draw_rows has failed at some line
DrawRowsFailed ==
    /\ pc = "panic"
    /\ terminal.io = {"draw_rows"}
    /\ buffer /= <<>> /\ buffer[Len(buffer)] = Ch(LF)

\* the write or the stdout().flush() of EditorBuffer::flush has failed
FlushFailed == pc = "panic" /\ "flush" \in terminal.io

\* C18: when a drawing step or the flush fails, the content accumulated in the
\* buffer for the frame in progress is discarded: the buffer is empty after the
\* failed operation.
C18_FailureEmptiesBuffer ==
    (DrawRowsFailed \/ FlushFailed) => buffer = <<>>

\* C19: within a frame the flush of the buffer is the only step that performs
\* terminal I/O: draw_rows, draw_status_bar and draw_message_bar do not write to
\* or flush the terminal.
C19_OnlyFlushDoesTerminalIO == terminal.io \subseteq {"flush"}

\* C20: a PageDown (PageUp) keypress leaves the controller in the state reached
\* by screen_rows Down (Up) moves, screen_rows the height the controller was
\* constructed with; cursor_y becomes min(cursor_y + screen_rows,
\* number_of_rows) (max(cursor_y - screen_rows, 0)).
C20_PageKeysMoveScreenRowsTimes ==
    /\ Moved("PageDown") =>
          /\ cc = move_cursor_times(before, "j", editor_rows, before.screen_rows)
          /\ cc.cursor_y = Min(before.cursor_y + before.screen_rows, NumRows)
    /\ Moved("PageUp") =>
          /\ cc = move_cursor_times(before, "k", editor_rows, before.screen_rows)
          /\ cc.cursor_y = Max(before.cursor_y - before.screen_rows, 0)

\* ------------------------------------------------------------------------
\* Claims on the order of a cycle (AppSpec)
\* ------------------------------------------------------------------------
\* the steps the claim names, in the order it gives them
ClaimedOrder ==
    <<"scroll", "draw_rows", "draw_status_bar", "draw_message_bar", "cursor_event",
      "flush", "process_keypress">>

\* the steps of the cycle in progress that the claim names, in the order made
RECURSIVE ClaimedSteps(_)
ClaimedSteps(steps) ==
    IF steps = <<>> THEN <<>>
    ELSE IF \E i \in 1..Len(ClaimedOrder) : ClaimedOrder[i] = Head(steps)
         THEN <<Head(steps)>> \o ClaimedSteps(Tail(steps))
         ELSE ClaimedSteps(Tail(steps))

\* how many times step was made in the cycle in progress
Count(step) == Cardinality({i \in 1..Len(trace) : trace[i] = step})

\* C21: every cycle of the driver loop makes its steps in the strict order
\* scroll, draw rows, draw status bar, draw message bar, position hardware
\* cursor, flush, wait for one key event; there is exactly one flush per cycle
\* and no key event is consumed before the flush of that cycle.
C21_CycleOrder ==
    LET steps == ClaimedSteps(trace)
    IN  /\ steps = Take(ClaimedOrder, Len(steps))
        /\ Count("flush") <= 1
        /\ Count("process_keypress") = 1 =>
              /\ steps = ClaimedOrder
              /\ Count("flush") = 1

\* a second cycle has been completed: its key event was consumed
C21_Witness ==
    /\ pc = "run"
    /\ hist.op = "move" /\ hist.after_scroll /\ before.cursor_y > 0
    /\ ClaimedSteps(trace) = ClaimedOrder

\* ------------------------------------------------------------------------
\* Claims on the construction of the row store (LoadSpec)
\* ------------------------------------------------------------------------
\* C22: constructing the row store with no source yields zero rows and no file
\* name; constructing it with a source that cannot be read never yields an
\* empty buffer but ends in a hard failure at construction time.
C22_NoSourceIsEmptyUnreadableFails ==
    /\ (pc = "constructed" /\ arg = NoArg) =>
          /\ NumRows = 0
          /\ get_file_name(editor_rows) = <<>>
    /\ (pc /= "args" /\ arg = Unreadable("f")) =>
          /\ pc = "panic"
          /\ editor_rows = NoRows

\* the construction from an unreadable source has failed
C22_Witness == pc = "panic" /\ arg = Unreadable("f")

\* ------------------------------------------------------------------------
\* Claims on render_row and get_render_x (RenderSpec)
\* ------------------------------------------------------------------------
\* C23: render_row is idempotent: a second call leaves the rendered content of
\* the first, and no call changes the raw content.
C23_RenderRowIdempotent ==
    [][ /\ row'.row_content = row.row_content
        /\ pc = "rendered" => row'.render = row.render ]_vars

\* render_row was called twice on a row with a tab
C23_Witness ==
    /\ Len(trace) = 2
    /\ \E i \in 1..Len(row.row_content) : row.row_content[i] = TAB
    /\ Len(row.render) > Len(row.row_content)

\* the length of the tab-expanded rendering of the first x characters of raw
RenderedLength(raw, x) == Len(render_row(Row(Take(raw, x), <<>>)).render)

\* C27: for every row and every cursor_x in 0..=length(row), get_render_x is
\* the length of render_row of the prefix row[0..cursor_x]; scroll sets render_x
\* to that value when cursor_y < number_of_rows and to 0 on the sentinel row.
C27_RenderXIsRenderedPrefixLength ==
    /\ \A x \in 0..Len(row.row_content) :
          get_render_x(set_cursor_position(cc, x, 0), row)
              = RenderedLength(row.row_content, x)
    /\ hist.op = "scroll" =>
          cc.render_x = IF cc.cursor_y < NumRows
                        THEN RenderedLength(get_row(editor_rows, cc.cursor_y), cc.cursor_x)
                        ELSE 0

\* scroll has run with the cursor after a character and a tab, short of the end
\* of the row
C27_Witness ==
    /\ hist.op = "scroll"
    /\ cc.cursor_y = 0 /\ cc.cursor_x = 2
    /\ Len(row.row_content) >= 3
    /\ Take(row.row_content, 3) = <<"a", TAB, "b">>
    /\ cc.render_x = 8

\* ------------------------------------------------------------------------
\* Claims on the Grass (GrassSpec)
\* ------------------------------------------------------------------------
\* the buffer is `old` with `line` put in at 0-based position idx
InsertedAt(old, idx, line) ==
    /\ Len(grass) = Len(old) + 1
    /\ grass[idx + 1] = line
    /\ \A j \in 1..idx : grass[j] = old[j]
    /\ \A j \in (idx + 1)..Len(old) : grass[j + 1] = old[j]

\* C24: the line operations never fail on an out-of-range index:
\* insert_line(idx, l) with idx > length appends l; remove_line(idx) and
\* edit_line(idx, l) with idx >= length leave the buffer unchanged; with an
\* index in range they insert at, remove or replace exactly position idx and
\* keep the order of all other lines.
C24_GrassLineOperations ==
    LET old == call.before
        idx == call.idx
    IN  /\ call.op = "insert_line" =>
              IF idx > Len(old)
              THEN InsertedAt(old, Len(old), call.line)
              ELSE InsertedAt(old, idx, call.line)
        /\ call.op = "remove_line" =>
              IF idx >= Len(old)
              THEN grass = old
              ELSE /\ Len(grass) = Len(old) - 1
                   /\ \A j \in 1..idx : grass[j] = old[j]
                   /\ \A j \in (idx + 2)..Len(old) : grass[j - 1] = old[j]
        /\ call.op = "edit_line" =>
              IF idx >= Len(old)
              THEN grass = old
              ELSE /\ Len(grass) = Len(old)
                   /\ grass[idx + 1] = call.line
                   /\ \A j \in 1..Len(old) : j /= idx + 1 => grass[j] = old[j]

\* a line was inserted past the end of a buffer of two different lines
C24_Witness ==
    /\ call.op = "insert_line"
    /\ Len(call.before) = 2 /\ call.before[1] /= call.before[2]
    /\ call.idx > Len(call.before)
    /\ grass = Append(call.before, call.line)

\* ------------------------------------------------------------------------
\* Claims on the Logger (LoggerSpec)
\* ------------------------------------------------------------------------
\* the last call has written to the log file
Wrote == logger.file /= call.before

C28_VerticalMoveAndClamp ==
    /\ Moved("k") => cc.cursor_y = Max(before.cursor_y - 1, 0)
    /\ Moved("j") => cc.cursor_y = Min(before.cursor_y + 1, NumRows)
    /\ (Moved("k") \/ Moved("j")) =>
          /\ cc.cursor_x = Min(before.cursor_x, RowLen(cc.cursor_y))
          /\ RowLen(cc.cursor_y) >= before.cursor_x => cc.cursor_x = before.cursor_x

\* a Down move from a column past 0 reached the next row and kept the column
C28_Witness ==
    /\ Moved("j")
    /\ before.cursor_x > 0
    /\ cc.cursor_y = before.cursor_y + 1
    /\ cc.cursor_x = before.cursor_x

\* C29: Home and End never change cursor_y: Home sets cursor_x to 0; End sets
\* cursor_x to length(row[cursor_y]) when cursor_y < number_of_rows and leaves
\* cursor_x unchanged when the cursor is on the sentinel row.
C29_HomeAndEnd ==
    /\ Moved("Home") => cc.cursor_y = before.cursor_y /\ cc.cursor_x = 0
    /\ Moved("End") =>
          /\ cc.cursor_y = before.cursor_y
          /\ IF before.cursor_y < NumRows
             THEN cc.cursor_x = Len(get_row(editor_rows, before.cursor_y))
             ELSE cc.cursor_x = before.cursor_x

\* End moved the cursor from column 0 to the end of a non-empty row
C29_Witness ==
    /\ Moved("End")
    /\ before.cursor_x = 0
    /\ before.cursor_y < NumRows
    /\ cc.cursor_x = RowLen(before.cursor_y) /\ cc.cursor_x > 0

\* ------------------------------------------------------------------------
\* Claims on the driver loop, continued (AppSpec)
\* ------------------------------------------------------------------------
\* C26: in every state reachable in the driver loop (one frame per key event,
\* screen_rows >= 1), each evaluation of get_cursor_position has
\* render_x >= col_offset and cursor_y >= row_offset, so neither subtraction
\* underflows, and the result (x, y) satisfies x < screen_cols and
\* y < screen_rows.  run evaluates it at the start of every frame.
C26_CursorPositionInWindow ==
    (pc = "run" /\ cc.screen_cols >= 1 /\ cc.screen_rows >= 1) =>
        LET p == get_cursor_position(cc)
        IN  /\ cc.render_x >= cc.col_offset
            /\ cc.cursor_y >= cc.row_offset
            /\ p[1] < cc.screen_cols
            /\ p[2] < cc.screen_rows

\* the scroll offsets of a controller
Offsets(c) == <<c.row_offset, c.col_offset>>

\* C30: scroll is the only writer of the scroll offsets: move_cursor,
\* set_cursor_position and every drawing operation leave row_offset and
\* col_offset unchanged, and the row store is never modified by any controller
\* operation.  Every step of the driver loop but run's call of scroll keeps the
\* offsets, and every step keeps the row store.
C30_OnlyScrollWritesOffsets ==
    [][ /\ pc /= "scroll" => Offsets(cursor_controller') = Offsets(cursor_controller)
        /\ \A x \in 0..MaxRowLen, y \in 0..MaxRows :
              Offsets(set_cursor_position(cursor_controller, x, y))
                  = Offsets(cursor_controller)
        /\ editor_rows' = editor_rows ]_vars

\* a key moved the cursor above a window that is scrolled down, and the window
\* stayed where it was
C30_Witness ==
    /\ Moved("k")
    /\ before.row_offset > 0
    /\ cc.cursor_y < before.cursor_y
    /\ cc.cursor_y < cc.row_offset
    /\ Offsets(cc) = Offsets(before)

\* ------------------------------------------------------------------------
\* Claims on the controller, third part (Spec)
\* ------------------------------------------------------------------------
\* the visual column of the cursor: what scroll would store in render_x
VisualColumn(c) ==
    IF c.cursor_y < NumRows
    THEN get_render_x(c, get_editor_row(editor_rows, c.cursor_y))
    ELSE 0

\* C31: after every move_cursor call, render_x equals the tab-expanded visual
\* column of the new cursor_x in row[cursor_y] (0 on the sentinel row): render_x
\* is never stale between a move and the next scroll.
C31_RenderXFreshAfterMove ==
    hist.op = "move" => cc.render_x = VisualColumn(cc)

\* ------------------------------------------------------------------------
\* Claims on the driver loop, third part (AppSpec)
\* ------------------------------------------------------------------------
\* C32: draw_status_bar never fails (no arithmetic underflow, no panic) for any
\* screen_cols >= 0, in particular when the right segment
\* current_line/total_lines is longer than screen_cols.
C32_StatusBarNeverFails ==
    ~(pc = "panic" /\ trace /= <<>> /\ trace[Len(trace)] = "draw_status_bar")

\* ------------------------------------------------------------------------
\* Claims on process_keypress (KeySpec)
\* ------------------------------------------------------------------------
\* the last key event was the quit command
QuitKey == call.event.code = "q" /\ call.event.modifiers = "CONTROL"

\* C33: the driver loop ends normally only on the quit command:
\* process_keypress returns false exactly when the key is 'q' with the CONTROL
\* modifier and true for every other key event; a key that is neither quit, a
\* movement key (h, j, k, l) nor PageUp/PageDown leaves cursor_x, cursor_y, the
\* offsets and the row store unchanged.
C33_OnlyQuitEndsTheLoop ==
    /\ pc = "exit" => (call.op = "process_keypress" /\ QuitKey)
    /\ call.op = "process_keypress" =>
          /\ call.result = (IF QuitKey THEN "Ok(false)" ELSE "Ok(true)")
          /\ (call.result = "Ok(false)") <=> (pc = "exit")
          /\ (~QuitKey /\ pc = "run"
                /\ call.event.code \notin {"h", "j", "k", "l", "PageUp", "PageDown"}) =>
                /\ cursor_controller = call.before[1]
                /\ editor_rows = call.before[2]

\* the Home key, which process_keypress has no arm for, left a cursor that is
\* past column 0 of a scrolled window where it was, and the loop goes on
C33_Witness ==
    /\ call.op = "process_keypress" /\ pc = "run"
    /\ call.event.code = "Home" /\ call.result = "Ok(true)"
    /\ call.before[1].cursor_x > 0 /\ call.before[1].row_offset > 0
    /\ cursor_controller = call.before[1]

\* ------------------------------------------------------------------------
\* Claims on the reader (ReadSpec)
\* ------------------------------------------------------------------------
\* the position in trace of the first key event that arrived, 0 when none has
FirstKey ==
    IF \E i \in 1..Len(trace) : trace[i].t = "Key"
    THEN CHOOSE i \in 1..Len(trace) :
            trace[i].t = "Key" /\ \A j \in 1..(i - 1) : trace[j].t /= "Key"
    ELSE 0

\* read_key has returned the first key event and consumed the events up to it
ReturnedFirstKey ==
    /\ call.result = "Ok"
    /\ FirstKey > 0
    /\ call.event = trace[FirstKey]
    /\ events = Drop(trace, FirstKey)

\* read_key is in its loop and has dropped only events that are not key events
Waiting ==
    /\ call.result = "Ok" /\ call.event = <<>>
    /\ \E n \in 0..Len(trace) :
         /\ events = Drop(trace, n)
         /\ \A j \in 1..n : trace[j].t /= "Key"

\* C34: read_key returns only key events: it re-polls after every timeout and
\* discards every non-key event, returns the first key event that arrives,
\* returns an error as soon as a poll or a read fails, and, if a key event
\* eventually arrives and no error occurs, it eventually returns; while it
\* waits no editor state changes.
C34_ReadKeyReturnsFirstKey ==
    /\ [](pc = "returned" => ReturnedFirstKey)
    /\ [](pc \in {"api", "read_event"} => Waiting)
    /\ [](pc = "error" <=> call.result \in {"Err(PollError)", "Err(ReadError)"})
    /\ [][ /\ (pc = "api" /\ events = <<>> /\ call' /= call) => pc' \in {"api", "error"}
           /\ <<editor_rows, cursor_controller, buffer, status_message, window_size>>'
                 = <<editor_rows, cursor_controller, buffer, status_message, window_size>>
         ]_vars
    /\ ((FirstKey > 0) ~> (pc \in {"returned", "error"}))

\* read_key has returned a key event after a poll timed out and after it
\* dropped an event that is not a key event; another event is still queued
C34_Witness ==
    /\ pc = "returned"
    /\ call.idx >= 1
    /\ FirstKey > 1
    /\ call.event = trace[FirstKey]
    /\ events /= <<>>

\* ------------------------------------------------------------------------
\* Claims on the writer (WriterSpec)
\* ------------------------------------------------------------------------
IsOperation(event) == event.t /= "None"

\* the items of a list of events that are not None, all of them queued
RECURSIVE ItemsOf(_)
ItemsOf(ops) ==
    IF ops = <<>> THEN <<>> ELSE cursor_event_item(Head(ops)) \o ItemsOf(Tail(ops))

\* C35: cursor_event applies the given cursor events to the buffer in list
\* order, skips None events, stops at the first event whose buffer operation
\* fails without applying any later event, and returns that failure as
\* CursorOperationError; with no failure (including an empty or all-None list)
\* it returns Ok. reset_screen queues hide-cursor, then clear, then MoveTo(0,0),
\* and does not queue the clear when hide-cursor fails.
C35_CursorEventsInOrderUntilFailure ==
    /\ call.op = "cursor_event" =>
          LET ops == SelectSeq(call.event, IsOperation)
          IN  IF call.idx = 0 \/ call.idx > Len(ops)
              THEN call.result = "Ok" /\ buffer = ItemsOf(ops)
              ELSE /\ call.result = "Err(CursorOperationError)"
                   /\ buffer = ItemsOf(Take(ops, call.idx - 1))
    /\ call.op = "reset_screen" =>
          CASE call.line = "" ->
                  /\ call.result = "Ok"
                  /\ buffer = <<Cmd("Hide"), Cmd("ClearAll"), MoveTo(0, 0)>>
            [] call.line = "hide_cursor" ->
                  call.result = "Err(CursorOperationError)" /\ buffer = <<>>
            [] call.line = "clear_screen" ->
                  call.result = "Err(ClearScreenError)" /\ buffer = <<Cmd("Hide")>>
            [] call.line = "move_cursor_to" ->
                  /\ call.result = "Err(CursorOperationError)"
                  /\ buffer = <<Cmd("Hide"), Cmd("ClearAll")>>

\* the second of three operations failed: the first is queued, the third is not
C35_Witness ==
    /\ call.op = "cursor_event"
    /\ Len(call.event) = 3
    /\ call.event[1].t = "MoveTo" /\ call.event[2].t = "Hide" /\ call.event[3].t = "Show"
    /\ call.idx = 2
    /\ call.result = "Err(CursorOperationError)"
    /\ buffer = <<MoveTo(1, 2)>>

\* ------------------------------------------------------------------------
\* Claims on scroll (Spec)
\* ------------------------------------------------------------------------
\* C36: scroll is idempotent and minimal-shift: calling scroll twice with no
\* move in between leaves row_offset, col_offset and render_x as after the
\* first call, and if the cursor was already inside the window on an axis
\* before scroll, that axis's offset is unchanged by scroll.
C36_ScrollIdempotentMinimalShift ==
    [][ hist'.op = "scroll" =>
          LET old == cursor_controller
              new == cursor_controller'
          IN  /\ hist.op = "scroll" =>
                    /\ new.row_offset = old.row_offset
                    /\ new.col_offset = old.col_offset
                    /\ new.render_x = old.render_x
              /\ (old.row_offset <= old.cursor_y
                    /\ old.cursor_y < old.row_offset + old.screen_rows) =>
                    new.row_offset = old.row_offset
              /\ (old.col_offset <= new.render_x
                    /\ new.render_x < old.col_offset + old.screen_cols) =>
                    new.col_offset = old.col_offset
      ]_vars

\* scroll left a window that is scrolled down where it was, the cursor being on
\* its first line and the window two lines high
C36_Witness ==
    /\ hist.op = "scroll"
    /\ before.row_offset > 0 /\ before.cursor_y = before.row_offset
    /\ before.screen_rows > 1
    /\ cc.row_offset = before.row_offset

\* ------------------------------------------------------------------------
\* Claims on saving and loading a Grass (SaveSpec)
\* ------------------------------------------------------------------------
\* C37: save/load round trip: for any buffer and any prior content of the
\* target file, save_file(path) followed by load_file(path) on a fresh Grass
\* yields a buffer equal to the saved one (same lines, same order), including
\* when the file previously held more text than the buffer being saved.
C37_SaveLoadRoundTrip ==
    (pc = "loaded" /\ call.op = "load_file") => grass = call.before

\* ------------------------------------------------------------------------
\* Claims on the status message, continued (StatusSpec)
\* ------------------------------------------------------------------------
\* C38: message() returns a text only if set_message has been called since
\* construction and the message has not expired: the initial message passed to
\* new() (the help text) is never returned by message() and so never drawn by
\* draw_message_bar, and in every reachable state set_time present implies
\* message present (the unwrap in message() cannot fail).
C38_InitialMessageNeverReturned ==
    /\ (reply.op = "message" /\ reply.out /= <<>>) =>
          /\ reply.set_at /= <<>>
          /\ ~reply.expired
          /\ reply.out = reply.text
          /\ reply.out /= <<HelpText>>
    /\ (reply.op = "message" /\ reply.set_at = <<>>) =>
          draw_message_bar(reply.out, <<WideCols, 1>>) = <<Cmd("ClearUntilNewLine")>>
    /\ status_message.set_time /= <<>> => status_message.message /= <<>>

\* message() was called before any set_message, after some time: it returned
\* absent and the help text is still stored
C38_Witness ==
    /\ reply.op = "message" /\ reply.set_at = <<>>
    /\ now > 0
    /\ reply.out = <<>>
    /\ status_message.message = <<HelpText>>

\* ------------------------------------------------------------------------
\* Claims on rows with characters of more than one byte (ByteSpec)
\* ------------------------------------------------------------------------
\* C39: for rows that contain characters encoded in more than one byte, after
\* any sequence of moves cursor_x always lies on a character boundary of
\* row[cursor_y], so the prefix row[..cursor_x] taken by get_render_x during
\* scroll is always a valid prefix and scroll never fails.
C39_CursorOnCharBoundary ==
    /\ cc.cursor_y < NumRows =>
          is_char_boundary(get_row(editor_rows, cc.cursor_y), cc.cursor_x)
    /\ pc /= "panic"

====
